---- MODULE Spec2Model ----
(***************************************************************************)
(* Py_ORM_for_PostgreSQL: the query builders and the connection pool of    *)
(* src/orm/db.py and the entity layer of src/orm/model.py.                 *)
(*                                                                         *)
(* A Python dict is a sequence of <<key, value>> pairs with distinct keys  *)
(* (insertion order is iteration order).  A statement is kept in parsed    *)
(* form: the column list and the placeholder list of INSERT, the           *)
(* <<column, $n>> pairs of SET and of WHERE, and the argument list that    *)
(* goes with the text.  Every value is a string ("None" is Python's None   *)
(* and SQL's NULL).                                                        *)
(***************************************************************************)
EXTENDS Integers, Sequences, FiniteSets, TLC

VARIABLES
    q_data,      \* builders: the data dict passed to the builder
    q_conds,     \* builders: the conditions dict passed to the builder
    emitted,     \* builders: the statement the last builder call handed to the driver
    catalog,     \* database: table name -> the table's definition
    db_rows,     \* database: table name -> the set of its rows
    schema,      \* class name -> the class attributes ModelMeta.__new__ computed
    objs,        \* the live entity instances, slot -> instance
    last,        \* the last entity operation: what was called and how it ended
    environ,     \* os.environ
    cp_objs,     \* the ConnectionPool objects and the coroutines inside their methods
    driver_pools,\* the pools asyncpg.create_pool has made, in order of creation
    pool_last    \* the last ConnectionPool call that ended: what was called and how

builderVars == <<q_data, q_conds, emitted>>

ormVars == <<schema, catalog, db_rows, objs, last>>

poolVars == <<environ, cp_objs, driver_pools, pool_last>>

vars == <<q_data, q_conds, emitted, schema, catalog, db_rows, objs, last,
          environ, cp_objs, driver_pools, pool_last>>

None == "None"

----------------------------------------------------------------------------
(* Python dicts *)

Range(s) == {s[i] : i \in DOMAIN s}

keys(d) == [i \in DOMAIN d |-> d[i][1]]

values(d) == [i \in DOMAIN d |-> d[i][2]]

HasKey(d, k) == \E i \in DOMAIN d : d[i][1] = k

Lookup(d, k) == d[CHOOSE i \in DOMAIN d : d[i][1] = k][2]

\* enumerate(s) with Python's 0-based index
enumerate(s) == [i \in DOMAIN s |-> <<i - 1, s[i]>>]

----------------------------------------------------------------------------
(* Statements *)

\* A Python value passed as limit or offset: None, an int or a str
PyNone == [type |-> "NoneType", int |-> 0, str |-> ""]

PyInt(n) == [type |-> "int", int |-> n, str |-> ""]

PyStr(text) == [type |-> "str", int |-> 0, str |-> text]

\* if value:
truthy(value) ==
    CASE value.type = "NoneType" -> FALSE
      [] value.type = "int" -> value.int # 0
      [] value.type = "str" -> value.str # ""

\* limit, offset: the value interpolated after LIMIT and after OFFSET, PyNone
\* when the text has no such clause
\* has_where: the text holds the keyword WHERE, followed by the predicates
\* of where joined with AND
NoStmt == [verb |-> "none", table |-> "", cols |-> <<>>, vals |-> <<>>,
           set |-> <<>>, has_where |-> FALSE, where |-> <<>>, returning |-> FALSE,
           limit |-> PyNone, offset |-> PyNone, args |-> <<>>]

\* the placeholder numbers of a statement in the order they appear in its text
Placeholders(s) ==
    s.vals \o [i \in DOMAIN s.set |-> s.set[i][2]] \o [i \in DOMAIN s.where |-> s.where[i][2]]

----------------------------------------------------------------------------
(* ConnectionPool query builders, db.py *)

ConnectionPool_create(table_name, data) ==
    [NoStmt EXCEPT !.verb = "INSERT", !.table = table_name,
                   !.cols = keys(data),
                   !.vals = [i \in 1..Len(data) |-> (i - 1) + 1],
                   !.returning = TRUE,
                   !.args = values(data)]

ConnectionPool_read(table_name, conditions) ==
    [NoStmt EXCEPT !.verb = "SELECT", !.table = table_name,
                   !.has_where = TRUE,
                   !.where = [j \in DOMAIN conditions |->
                                 <<enumerate(keys(conditions))[j][2],
                                   enumerate(keys(conditions))[j][1] + 1>>],
                   !.args = values(conditions)]

ConnectionPool_update_reusing(table_name, data, conditions) ==
    [NoStmt EXCEPT !.verb = "UPDATE", !.table = table_name,
                   !.has_where = TRUE,
                   !.set = [j \in DOMAIN data |->
                               <<enumerate(keys(data))[j][2],
                                 enumerate(keys(data))[j][1] + 1>>],
                   !.where = [j \in DOMAIN conditions |->
                                 <<enumerate(keys(conditions))[j][2],
                                   enumerate(keys(conditions))[j][1] + 1>>],
                   !.returning = TRUE,
                   !.args = values(data) \o values(conditions)]

ConnectionPool_update(table_name, data, conditions) ==
    [NoStmt EXCEPT !.verb = "UPDATE", !.table = table_name,
                   !.has_where = TRUE,
                   !.set = [j \in DOMAIN data |->
                               <<enumerate(keys(data))[j][2],
                                 enumerate(keys(data))[j][1] + 1>>],
                   !.where = [j \in DOMAIN conditions |->
                                 <<enumerate(keys(conditions))[j][2],
                                   enumerate(keys(conditions))[j][1] + 1 + Len(data)>>],
                   !.returning = TRUE,
                   !.args = values(data) \o values(conditions)]

ConnectionPool_delete(table_name, conditions) ==
    [NoStmt EXCEPT !.verb = "DELETE", !.table = table_name,
                   !.has_where = TRUE,
                   !.where = [j \in DOMAIN conditions |->
                                 <<enumerate(keys(conditions))[j][2],
                                   enumerate(keys(conditions))[j][1] + 1>>],
                   !.returning = TRUE,
                   !.args = values(conditions)]

----------------------------------------------------------------------------
(* BaseModel.update, the statement it builds (model.py) *)

\* only the first column of data written
BaseModel_update_query_first_column(table_name, data, primary_key, primary_key_value) ==
    [NoStmt EXCEPT !.verb = "UPDATE", !.table = table_name,
                   !.has_where = TRUE,
                   !.set = <<<<data[1][1], 1>>>>,
                   !.where = <<<<primary_key, 2>>>>,
                   !.args = <<data[1][2], primary_key_value>>]

\* the primary key written into the SET list as well
BaseModel_update_query_setting_key(table_name, data, primary_key, primary_key_value) ==
    [NoStmt EXCEPT !.verb = "UPDATE", !.table = table_name,
                   !.has_where = TRUE,
                   !.set = [j \in 1..(Len(data) + 1) |->
                               <<IF j <= Len(data) THEN data[j][1] ELSE primary_key, j>>],
                   !.where = <<<<primary_key, Len(data) + 2>>>>,
                   !.args = values(data) \o <<primary_key_value, primary_key_value>>]

\* data is to_dict() after the primary key was popped
BaseModel_update_query(table_name, data, primary_key, primary_key_value) ==
    [NoStmt EXCEPT !.verb = "UPDATE", !.table = table_name,
                   !.has_where = TRUE,
                   !.set = [j \in DOMAIN data |->
                               <<enumerate(keys(data))[j][2],
                                 enumerate(keys(data))[j][1] + 1>>],
                   !.where = <<<<primary_key, Len(data) + 1>>>>,
                   !.args = values(data) \o <<primary_key_value>>]

----------------------------------------------------------------------------
(* Identifiers are sequences of characters; ModelMeta._camel_to_snake *)

UpperChars == <<"A","B","C","D","E","F","G","H","I","J","K","L","M",
                "N","O","P","Q","R","S","T","U","V","W","X","Y","Z">>

LowerChars == <<"a","b","c","d","e","f","g","h","i","j","k","l","m",
                "n","o","p","q","r","s","t","u","v","w","x","y","z">>

DigitChars == <<"0","1","2","3","4","5","6","7","8","9">>

IsUpper(c) == c \in Range(UpperChars)

IsLower(c) == c \in Range(LowerChars)

IsDigit(c) == c \in Range(DigitChars)

\* str.lower() on one character
lower(c) == IF IsUpper(c) THEN LowerChars[CHOOSE i \in DOMAIN UpperChars : UpperChars[i] = c]
            ELSE c

\* the end of the greedy run [a-z]+ that starts at position p (p - 1 if there is none)
RECURSIVE LowerRunEnd(_, _)
LowerRunEnd(name, p) ==
    IF p <= Len(name) /\ IsLower(name[p]) THEN LowerRunEnd(name, p + 1) ELSE p - 1

\* re.sub('(.)([A-Z][a-z]+)', r'\1_\2', name), scanning from position p
RECURSIVE sub_acronym(_, _)
sub_acronym(name, p) ==
    IF p > Len(name) THEN <<>>
    ELSE IF /\ p + 2 <= Len(name)
            /\ IsUpper(name[p + 1])
            /\ IsLower(name[p + 2])
         THEN <<name[p], "_">> \o SubSeq(name, p + 1, LowerRunEnd(name, p + 2))
                  \o sub_acronym(name, LowerRunEnd(name, p + 2) + 1)
         ELSE <<name[p]>> \o sub_acronym(name, p + 1)

\* re.sub('([a-z0-9])([A-Z])', r'\1_\2', s1), scanning from position p
RECURSIVE sub_boundary(_, _)
sub_boundary(s1, p) ==
    IF p > Len(s1) THEN <<>>
    ELSE IF /\ p + 1 <= Len(s1)
            /\ (IsLower(s1[p]) \/ IsDigit(s1[p]))
            /\ IsUpper(s1[p + 1])
         THEN <<s1[p], "_", s1[p + 1]>> \o sub_boundary(s1, p + 2)
         ELSE <<s1[p]>> \o sub_boundary(s1, p + 1)

_camel_to_snake_boundary_only(name) ==
    LET s2 == sub_boundary(name, 1)
    IN  [i \in DOMAIN s2 |-> lower(s2[i])]

_camel_to_snake(name) ==
    LET s1 == sub_acronym(name, 1)
        s2 == sub_boundary(s1, 1)
    IN  [i \in DOMAIN s2 |-> lower(s2[i])]

\* the text of an identifier
RECURSIVE Text(_)
Text(chars) == IF chars = <<>> THEN "" ELSE Head(chars) \o Text(Tail(chars))

----------------------------------------------------------------------------
(* Field, ForeignKey and the entity declarations, model.py *)

\* foreign_key=None
NoForeignKey == [reference_model |-> <<>>, reference_field |-> "",
                 on_delete |-> "", on_update |-> ""]

\* ForeignKey(reference_model, reference_field="id", on_delete="CASCADE", on_update="CASCADE")
ForeignKey(reference_model, reference_field, on_delete, on_update) ==
    [reference_model |-> reference_model, reference_field |-> reference_field,
     on_delete |-> on_delete, on_update |-> on_update]

\* Field(field_type, nullable=True, default=None, primary_key=False, unique=False,
\*       foreign_key=None); default_is_str is isinstance(default, str)
Field(field_type, nullable, default, default_is_str, primary_key, unique, foreign_key) ==
    [field_type |-> field_type, nullable |-> nullable, default |-> default,
     default_is_str |-> default_is_str, primary_key |-> primary_key,
     unique |-> unique, foreign_key |-> foreign_key]

\* FieldType, the values the column SQL starts with (db.py)
FieldType == [INT |-> "INTEGER", BIGINT |-> "BIGINT", SMALLINT |-> "SMALLINT",
              VARCHAR |-> "VARCHAR", TEXT |-> "TEXT", BOOLEAN |-> "BOOLEAN",
              TIMESTAMP |-> "TIMESTAMP", DATE |-> "DATE", DECIMAL |-> "DECIMAL",
              JSON |-> "JSON", UUID |-> "UUID"]

\* A class body: its name, the Field attributes of its namespace in the order
\* written, its __annotations__ in the order written, and the _table_name it
\* sets ("" when it sets none).
ClassBody(name, namespace, annotations) ==
    [name |-> name, namespace |-> namespace, annotations |-> annotations,
     table_name |-> ""]

\* A type written in an annotation: its text, its __origin__ (None when it
\* has no such attribute) and its __args__ as type names.
Class(name) == [name |-> name, __origin__ |-> None, __args__ |-> <<>>]

\* type(int | str)
UnionType == "types.UnionType"

\* T | None.  Whether the object has __origin__ is the interpreter's choice:
\* types.UnionType has none up to Python 3.13, and from 3.14 it has one that
\* is the union type itself.
Optional(T, origin) ==
    [name |-> T \o " | None", __origin__ |-> origin, __args__ |-> <<T, "NoneType">>]

\* list[T], a generic alias whose __origin__ is list
ListOf(T) == [name |-> "list[" \o T \o "]", __origin__ |-> "list", __args__ |-> <<T>>]

\* the type looked up in type_mapping, lines 126-131
unwrapped(python_type) ==
    IF python_type.__origin__ # None /\ python_type.__origin__ = UnionType
    THEN LET non_none_types == SelectSeq(python_type.__args__, LAMBDA arg : arg # "NoneType")
         IN  IF Len(non_none_types) = 1 THEN non_none_types[1] ELSE python_type.name
    ELSE python_type.name

\* type_mapping.get(python_type), lines 134-142
type_mapping_get(name) ==
    CASE name = "int" -> FieldType.INT
      [] name = "str" -> FieldType.TEXT
      [] name = "bool" -> FieldType.BOOLEAN
      [] name = "float" -> FieldType.DECIMAL
      [] OTHER -> None

_infer_field_type(python_type) == type_mapping_get(unwrapped(python_type))

\* A column definition is the sequence of its clauses; a clause is a keyword
\* and, for DEFAULT, the literal and whether it is written in quotes.
Clause(kw) == [kw |-> kw, literal |-> "", quoted |-> FALSE]

DefaultClause(default, default_is_str) ==
    [kw |-> "DEFAULT", literal |-> default, quoted |-> default_is_str]

field_def_unique_first(attr_value) ==
    <<Clause(attr_value.field_type)>>
    \o (IF ~attr_value.nullable THEN <<Clause("NOT NULL")>> ELSE <<>>)
    \o (IF attr_value.unique THEN <<Clause("UNIQUE")>> ELSE <<>>)
    \o (IF attr_value.primary_key THEN <<Clause("PRIMARY KEY")>> ELSE <<>>)
    \o (IF attr_value.default # None /\ ~attr_value.primary_key
        THEN <<DefaultClause(attr_value.default, attr_value.default_is_str)>>
        ELSE <<>>)

\* the field_def string built for one Field, lines 83-95
field_def(attr_value) ==
    <<Clause(attr_value.field_type)>>
    \o (IF ~attr_value.nullable THEN <<Clause("NOT NULL")>> ELSE <<>>)
    \o (IF attr_value.primary_key THEN <<Clause("PRIMARY KEY")>> ELSE <<>>)
    \o (IF attr_value.unique THEN <<Clause("UNIQUE")>> ELSE <<>>)
    \o (IF attr_value.default # None /\ ~attr_value.primary_key
        THEN <<DefaultClause(attr_value.default, attr_value.default_is_str)>>
        ELSE <<>>)

\* the text of a column definition
RECURSIVE ClauseText(_)
ClauseText(clauses) ==
    IF clauses = <<>> THEN ""
    ELSE LET c == Head(clauses)
             t == IF c.kw = "DEFAULT"
                  THEN IF c.quoted THEN "DEFAULT '" \o c.literal \o "'"
                       ELSE "DEFAULT " \o c.literal
                  ELSE c.kw
         IN  IF Tail(clauses) = <<>> THEN t ELSE t \o " " \o ClauseText(Tail(clauses))

\* the foreign_keys entry built for one Field, lines 98-105
foreign_key_info(fk) ==
    [reference_table |-> Text(_camel_to_snake(fk.reference_model)),
     reference_field |-> fk.reference_field,
     on_delete |-> fk.on_delete,
     on_update |-> fk.on_update]

\* ModelMeta.__new__: the class attributes computed from a class body
ModelMeta_new(body) ==
    LET ns == body.namespace
        explicit == [i \in DOMAIN ns |-> <<ns[i][1], field_def(ns[i][2])>>]
        ann == body.annotations
        inferred ==
            SelectSeq(ann, LAMBDA a : /\ a[1][1] # "_"
                                      /\ ~HasKey(explicit, Text(a[1]))
                                      /\ _infer_field_type(a[2]) # None)
        pks == {i \in DOMAIN ns : ns[i][2].primary_key}
        fkattrs == SelectSeq(ns, LAMBDA a : a[2].foreign_key # NoForeignKey)
    IN  [__name__ |-> Text(body.name),
         __qualname__ |-> body.name,
         \* what the class body held: its Field attributes and __annotations__
         namespace |-> ns,
         __annotations__ |-> ann,
         _table_name |-> IF body.table_name # "" THEN body.table_name
                         ELSE Text(_camel_to_snake(body.name)),
         _fields |-> explicit \o
                     [i \in DOMAIN inferred |->
                         <<Text(inferred[i][1]),
                           <<Clause(_infer_field_type(inferred[i][2]))>>>>],
         _foreign_keys |-> [i \in DOMAIN fkattrs |->
                               <<fkattrs[i][1], foreign_key_info(fkattrs[i][2].foreign_key)>>],
         \* the loop assigns primary_key at every primary-key Field: the last one stays
         _primary_key |-> IF pks = {} THEN None
                          ELSE ns[CHOOSE i \in pks : \A j \in pks : j <= i][1],
         \* the Field descriptors stay class attributes, with their defaults
         descriptors |-> [i \in DOMAIN ns |-> <<ns[i][1], ns[i][2].default>>]]

----------------------------------------------------------------------------
(* The entities declared for the runs below *)

\* class Product(BaseModel):
\*     id = Field(FieldType.INT, primary_key=True, nullable=False)
\*     in_stock = Field(FieldType.BOOLEAN, default=True, nullable=False)
\*     name: str
ProductBody ==
    ClassBody(<<"P","r","o","d","u","c","t">>,
              << <<"id", Field(FieldType.INT, FALSE, None, FALSE, TRUE, FALSE, NoForeignKey)>>,
                 <<"in_stock", Field(FieldType.BOOLEAN, FALSE, "True", FALSE, FALSE, FALSE,
                                     NoForeignKey)>> >>,
              << <<<<"n","a","m","e">>, Class("str")>> >>)

\* class NoKeyModel(BaseModel):
\*     name = Field(FieldType.TEXT, unique=True, nullable=False)
NoKeyModelBody ==
    ClassBody(<<"N","o","K","e","y","M","o","d","e","l">>,
              << <<"name", Field(FieldType.TEXT, FALSE, None, FALSE, FALSE, TRUE, NoForeignKey)>> >>,
              <<>>)

\* class User(BaseModel):
\*     id = Field(FieldType.INT, primary_key=True, nullable=False)
UserBody ==
    ClassBody(<<"U","s","e","r">>,
              << <<"id", Field(FieldType.INT, FALSE, None, FALSE, TRUE, FALSE, NoForeignKey)>> >>,
              <<>>)

\* class Post(BaseModel):
\*     id = Field(FieldType.INT, primary_key=True, nullable=False)
\*     user_id = Field(FieldType.INT, nullable=False, foreign_key=ForeignKey("User", "id"))
PostBody ==
    ClassBody(<<"P","o","s","t">>,
              << <<"id", Field(FieldType.INT, FALSE, None, FALSE, TRUE, FALSE, NoForeignKey)>>,
                 <<"user_id", Field(FieldType.INT, FALSE, None, FALSE, FALSE, FALSE,
                                    ForeignKey(<<"U","s","e","r">>, "id", "CASCADE", "CASCADE"))>> >>,
              <<>>)

\* class Comment(BaseModel):
\*     id = Field(FieldType.INT, primary_key=True, nullable=False)
\*     post_id = Field(FieldType.INT, nullable=False, foreign_key=ForeignKey("Post", "id"))
\*     user_id = Field(FieldType.INT, nullable=True, foreign_key=ForeignKey("User", "id"))
CommentBody ==
    ClassBody(<<"C","o","m","m","e","n","t">>,
              << <<"id", Field(FieldType.INT, FALSE, None, FALSE, TRUE, FALSE, NoForeignKey)>>,
                 <<"post_id", Field(FieldType.INT, FALSE, None, FALSE, FALSE, FALSE,
                                    ForeignKey(<<"P","o","s","t">>, "id", "CASCADE", "CASCADE"))>>,
                 <<"user_id", Field(FieldType.INT, TRUE, None, FALSE, FALSE, FALSE,
                                    ForeignKey(<<"U","s","e","r">>, "id", "CASCADE", "CASCADE"))>> >>,
              <<>>)

\* the class body of a class name
Body(cls) ==
    CASE cls = "Product" -> ProductBody
      [] cls = "NoKeyModel" -> NoKeyModelBody
      [] cls = "User" -> UserBody
      [] cls = "Post" -> PostBody
      [] cls = "Comment" -> CommentBody

\* the class object of a class name
Meta(cls) == schema[cls]

----------------------------------------------------------------------------
(* Entity instances: BaseModel.__init__, the descriptors, to_dict *)

\* an instance is its class and its __dict__ (attribute name -> value)
NoObj == [cls |-> "", dict |-> <<>>]

Restrict(f, S) == [k \in DOMAIN f \cap S |-> f[k]]

FieldNames(cls) == Range(keys(Meta(cls)._fields))

\* setattr(self, key, value), through Field.__set__ or as a plain attribute
setattr(self, key, value) ==
    [self EXCEPT !.dict = [k \in DOMAIN self.dict \cup {key} |->
                              IF k = key THEN value ELSE self.dict[k]]]

\* every keyword set as an attribute, a field or not
set_fields_unfiltered(self, kwargs) ==
    [self EXCEPT !.dict = [k \in DOMAIN self.dict \cup DOMAIN kwargs |->
                              IF k \in DOMAIN kwargs THEN kwargs[k] ELSE self.dict[k]]]

\* for key, value in kwargs.items(): if key in self._fields: setattr(self, key, value)
set_fields(self, kwargs) ==
    [self EXCEPT !.dict = [k \in DOMAIN self.dict \cup (DOMAIN kwargs \cap FieldNames(self.cls)) |->
                              IF k \in DOMAIN kwargs THEN kwargs[k] ELSE self.dict[k]]]

BaseModel_init(cls, kwargs) == set_fields([cls |-> cls, dict |-> <<>>], kwargs)

\* a declared Field is a class attribute whose __get__ falls back to its default;
\* a field inferred from an annotation exists only once it was assigned
hasattr(self, field_name) ==
    \/ HasKey(Meta(self.cls).descriptors, field_name)
    \/ field_name \in DOMAIN self.dict

getattr(self, field_name) ==
    IF field_name \in DOMAIN self.dict THEN self.dict[field_name]
    ELSE Lookup(Meta(self.cls).descriptors, field_name)

to_dict(self) ==
    LET held == SelectSeq(keys(Meta(self.cls)._fields), LAMBDA f : hasattr(self, f))
    IN  [i \in DOMAIN held |-> <<held[i], getattr(self, held[i])>>]

\* cls.from_dict(dict(row)) for a row of the class's table
from_dict(cls, row) == BaseModel_init(cls, row)

\* data.pop(key)
pop(data, key) == SelectSeq(data, LAMBDA e : e[1] # key)

----------------------------------------------------------------------------
(* The statements of the entity operations *)

\* the values bound to the placeholders in reverse
BaseModel_save_query_reversed(table_name, data) ==
    [NoStmt EXCEPT !.verb = "INSERT", !.table = table_name,
                   !.cols = keys(data),
                   !.vals = [i \in 1..Len(data) |-> Len(data) - (i - 1)],
                   !.args = values(data)]

BaseModel_save_query(table_name, data) ==
    [NoStmt EXCEPT !.verb = "INSERT", !.table = table_name,
                   !.cols = keys(data),
                   !.vals = [i \in 1..Len(data) |-> (i - 1) + 1],
                   !.args = values(data)]

BaseModel_find_by_id_query(table_name, primary_key, id_value) ==
    [NoStmt EXCEPT !.verb = "SELECT", !.table = table_name,
                   !.has_where = TRUE,
                   !.where = <<<<primary_key, 1>>>>,
                   !.args = <<id_value>>]

\* the statement bound to no key value
BaseModel_delete_query_unbound(table_name, primary_key, primary_key_value) ==
    [NoStmt EXCEPT !.verb = "DELETE", !.table = table_name,
                   !.has_where = TRUE,
                   !.where = <<<<primary_key, 1>>>>,
                   !.args = <<None>>]

BaseModel_delete_query(table_name, primary_key, primary_key_value) ==
    [NoStmt EXCEPT !.verb = "DELETE", !.table = table_name,
                   !.has_where = TRUE,
                   !.where = <<<<primary_key, 1>>>>,
                   !.args = <<primary_key_value>>]

----------------------------------------------------------------------------
(* The database: what PostgreSQL does with a statement.  Every declared     *)
(* table has a NOT NULL column that is PRIMARY KEY or UNIQUE, so no table   *)
(* holds the same row twice and a table is the set of its rows.             *)

NoTable == [exists |-> FALSE, columns |-> <<>>, foreign_keys |-> <<>>]

HasClause(def, kw) == \E i \in DOMAIN def : def[i].kw = kw

\* the value a column gets when INSERT does not name it
ColumnDefault(def) ==
    IF HasClause(def, "DEFAULT")
    THEN def[CHOOSE i \in DOMAIN def : def[i].kw = "DEFAULT"].literal
    ELSE None

\* col = $n is true for no row when either side is NULL
Matches(row, where, args) ==
    \A i \in DOMAIN where :
        /\ where[i][1] \in DOMAIN row
        /\ args[where[i][2]] # None
        /\ row[where[i][1]] = args[where[i][2]]

\* NOT NULL, PRIMARY KEY and UNIQUE of one table hold for a set of rows
ColumnConstraintsHold(tdef, rows) ==
    \A i \in DOMAIN tdef.columns :
        LET c == tdef.columns[i][1]
            def == tdef.columns[i][2]
        IN  /\ (HasClause(def, "NOT NULL") \/ HasClause(def, "PRIMARY KEY")) =>
                   \A r \in rows : r[c] # None
            /\ (HasClause(def, "PRIMARY KEY") \/ HasClause(def, "UNIQUE")) =>
                   \A r1, r2 \in rows : (r1[c] = r2[c] /\ r1[c] # None) => r1 = r2

\* the rows of table t whose foreign key i references no row
Dangling(cat, rows, t, i) ==
    LET c == cat[t].foreign_keys[i][1]
        fk == cat[t].foreign_keys[i][2]
    IN  {r \in rows[t] : /\ r[c] # None
                         /\ ~\E p \in rows[fk.reference_table] : p[fk.reference_field] = r[c]}

ForeignKeysHold(cat, rows) ==
    \A t \in DOMAIN cat : \A i \in DOMAIN cat[t].foreign_keys : Dangling(cat, rows, t, i) = {}

\* a delete left referencing rows behind and the rule is not CASCADE
Restricted(cat, rows) ==
    \E t \in DOMAIN cat : \E i \in DOMAIN cat[t].foreign_keys :
        /\ cat[t].foreign_keys[i][2].on_delete # "CASCADE"
        /\ Dangling(cat, rows, t, i) # {}

\* ON DELETE CASCADE, applied until no referencing row is left behind
RECURSIVE Cascade(_, _)
Cascade(cat, rows) ==
    LET next == [t \in DOMAIN rows |->
                    rows[t] \ UNION {IF cat[t].foreign_keys[i][2].on_delete = "CASCADE"
                                     THEN Dangling(cat, rows, t, i) ELSE {} :
                                     i \in DOMAIN cat[t].foreign_keys}]
    IN  IF next = rows THEN rows ELSE Cascade(cat, next)

Raised(rows) == [ok |-> FALSE, rows |-> rows, count |-> 0]

Done(rows, count) == [ok |-> TRUE, rows |-> rows, count |-> count]

pg_insert(cat, rows, stmt) ==
    LET tdef == cat[stmt.table]
        cols == keys(tdef.columns)
        new == [c \in Range(cols) |->
                   IF c \in Range(stmt.cols)
                   THEN stmt.args[stmt.vals[CHOOSE i \in DOMAIN stmt.cols : stmt.cols[i] = c]]
                   ELSE ColumnDefault(Lookup(tdef.columns, c))]
        after == [rows EXCEPT ![stmt.table] = @ \cup {new}]
    IN  IF \/ ~tdef.exists
           \/ ~(Range(stmt.cols) \subseteq Range(cols))
           \/ new \in rows[stmt.table]
           \/ ~ColumnConstraintsHold(tdef, after[stmt.table])
           \/ ~ForeignKeysHold(cat, after)
        THEN Raised(rows)
        ELSE Done(after, 1)

pg_update(cat, rows, stmt) ==
    LET tdef == cat[stmt.table]
        hit == {r \in rows[stmt.table] : Matches(r, stmt.where, stmt.args)}
        set(r) == [c \in DOMAIN r |->
                      IF \E i \in DOMAIN stmt.set : stmt.set[i][1] = c
                      THEN stmt.args[stmt.set[CHOOSE i \in DOMAIN stmt.set :
                                                  stmt.set[i][1] = c][2]]
                      ELSE r[c]]
        after == [rows EXCEPT ![stmt.table] = (@ \ hit) \cup {set(r) : r \in hit}]
    IN  IF \/ ~tdef.exists
           \/ ~({stmt.set[i][1] : i \in DOMAIN stmt.set} \subseteq Range(keys(tdef.columns)))
           \/ Cardinality(after[stmt.table]) # Cardinality(rows[stmt.table])
           \/ ~ColumnConstraintsHold(tdef, after[stmt.table])
           \/ ~ForeignKeysHold(cat, after)
        THEN Raised(rows)
        ELSE Done(after, Cardinality(hit))

pg_delete(cat, rows, stmt) ==
    LET tdef == cat[stmt.table]
        hit == {r \in rows[stmt.table] : Matches(r, stmt.where, stmt.args)}
        after == [rows EXCEPT ![stmt.table] = @ \ hit]
    IN  IF ~tdef.exists \/ Restricted(cat, after)
        THEN Raised(rows)
        ELSE Done(Cascade(cat, after), Cardinality(hit))

\* con.execute(query, *args)
pg_execute(cat, rows, stmt) ==
    CASE stmt.verb = "INSERT" -> pg_insert(cat, rows, stmt)
      [] stmt.verb = "UPDATE" -> pg_update(cat, rows, stmt)
      [] stmt.verb = "DELETE" -> pg_delete(cat, rows, stmt)

\* con.fetch(query, *args): the rows a SELECT * returns
pg_fetch(cat, rows, stmt) ==
    {r \in rows[stmt.table] : Matches(r, stmt.where, stmt.args)}

----------------------------------------------------------------------------
(* Database.create_table(table_name, fields, foreign_keys), as ensure_table_exists *)
(* calls it: CREATE TABLE IF NOT EXISTS with the column definitions and one         *)
(* FOREIGN KEY ... REFERENCES ... ON DELETE ... ON UPDATE ... per foreign key       *)

Database_create_table(cat, table_name, fields, foreign_keys) ==
    IF cat[table_name].exists
    THEN [ok |-> TRUE, cat |-> cat]
    ELSE IF \E i \in DOMAIN foreign_keys :
                LET fk == foreign_keys[i][2]
                IN  \/ fk.reference_table \notin DOMAIN cat
                    \/ ~cat[fk.reference_table].exists
                    \/ ~HasKey(cat[fk.reference_table].columns, fk.reference_field)
         THEN [ok |-> FALSE, cat |-> cat]
         ELSE [ok |-> TRUE,
               cat |-> [cat EXCEPT ![table_name] =
                           [exists |-> TRUE, columns |-> fields,
                            foreign_keys |-> foreign_keys]]]

\* a table created from the columns alone
ensure_table_exists_columns_only(cls, cat) ==
    Database_create_table(cat, Meta(cls)._table_name, Meta(cls)._fields, <<>>)

ensure_table_exists(cls, cat) ==
    Database_create_table(cat, Meta(cls)._table_name, Meta(cls)._fields,
                          Meta(cls)._foreign_keys)

----------------------------------------------------------------------------
(* The entity operations, model.py.  Each gives the instance, the rows, the   *)
(* statement handed to the database (NoStmt when none was) and how the call   *)
(* ended: "ok", "ValueError" (no primary key defined) or "QueryError" (the    *)
(* database raised).                                                          *)

Outcome(self, rows, stmt, outcome, ret) ==
    [self |-> self, rows |-> rows, stmt |-> stmt, outcome |-> outcome, ret |-> ret]

\* return await db_instance._execute(query, *values)
Executed(self, query, res) ==
    Outcome(self, res.rows, query, IF res.ok THEN "ok" ELSE "QueryError", NoObj)

BaseModel_save(self, cat, rows) ==
    LET data == to_dict(self)
        query == BaseModel_save_query(Meta(self.cls)._table_name, data)
    IN  Executed(self, query, pg_execute(cat, rows, query))

\* ret is the instance returned, NoObj for None
BaseModel_find_by_id(cls, id_value, cat, rows) ==
    IF Meta(cls)._primary_key = None
    THEN Outcome(NoObj, rows, NoStmt, "ValueError", NoObj)
    ELSE LET query == BaseModel_find_by_id_query(Meta(cls)._table_name,
                                                 Meta(cls)._primary_key, id_value)
             found == pg_fetch(cat, rows, query)
         IN  IF ~cat[query.table].exists
             THEN Outcome(NoObj, rows, query, "QueryError", NoObj)
             ELSE IF found = {}
                  THEN Outcome(NoObj, rows, query, "ok", NoObj)
                  ELSE Outcome(NoObj, rows, query, "ok",
                               from_dict(cls, CHOOSE row \in found : TRUE))

\* an update that writes only the fields its keywords name
BaseModel_update_named_only(self, kwargs, cat, rows) ==
    IF Meta(self.cls)._primary_key = None
    THEN Outcome(self, rows, NoStmt, "ValueError", NoObj)
    ELSE LET merged == set_fields(self, kwargs)
             all == to_dict(merged)
             primary_key_value == Lookup(all, Meta(self.cls)._primary_key)
             data == SelectSeq(pop(all, Meta(self.cls)._primary_key),
                               LAMBDA e : e[1] \in DOMAIN kwargs)
             query == BaseModel_update_query(Meta(self.cls)._table_name, data,
                                             Meta(self.cls)._primary_key, primary_key_value)
         IN  IF data = <<>>
             THEN Outcome(merged, rows, NoStmt, "ok", NoObj)
             ELSE Executed(merged, query, pg_execute(cat, rows, query))

\* an update that assigns the keywords before it looks for the primary key
BaseModel_update_merging_first(self, kwargs, cat, rows) ==
    LET merged == set_fields(self, kwargs)
        all == to_dict(merged)
    IN  IF Meta(self.cls)._primary_key = None
        THEN Outcome(merged, rows, NoStmt, "ValueError", NoObj)
        ELSE LET primary_key_value == Lookup(all, Meta(self.cls)._primary_key)
                 data == pop(all, Meta(self.cls)._primary_key)
                 query == BaseModel_update_query(Meta(self.cls)._table_name, data,
                                                 Meta(self.cls)._primary_key,
                                                 primary_key_value)
             IN  IF data = <<>>
                 THEN Outcome(merged, rows, NoStmt, "ok", NoObj)
                 ELSE Executed(merged, query, pg_execute(cat, rows, query))

\* an update that finds the row by the key the instance had and writes the
\* new key into it
BaseModel_update_renaming_key(self, kwargs, cat, rows) ==
    IF Meta(self.cls)._primary_key = None
    THEN Outcome(self, rows, NoStmt, "ValueError", NoObj)
    ELSE LET merged == set_fields(self, kwargs)
             data == to_dict(merged)
             primary_key_value == getattr(self, Meta(self.cls)._primary_key)
             query == BaseModel_update_query(Meta(self.cls)._table_name, data,
                                             Meta(self.cls)._primary_key, primary_key_value)
         IN  IF data = <<>>
             THEN Outcome(merged, rows, NoStmt, "ok", NoObj)
             ELSE Executed(merged, query, pg_execute(cat, rows, query))

\* an update that puts the old values back when the statement raises
BaseModel_update_rolling_back(self, kwargs, cat, rows) ==
    IF Meta(self.cls)._primary_key = None
    THEN Outcome(self, rows, NoStmt, "ValueError", NoObj)
    ELSE LET merged == set_fields(self, kwargs)
             all == to_dict(merged)
             primary_key_value == Lookup(all, Meta(self.cls)._primary_key)
             data == pop(all, Meta(self.cls)._primary_key)
             query == BaseModel_update_query(Meta(self.cls)._table_name, data,
                                             Meta(self.cls)._primary_key, primary_key_value)
             res == pg_execute(cat, rows, query)
         IN  IF data = <<>>
             THEN Outcome(merged, rows, NoStmt, "ok", NoObj)
             ELSE IF res.ok
                  THEN Executed(merged, query, res)
                  ELSE Executed(self, query, res)

BaseModel_update(self, kwargs, cat, rows) ==
    IF Meta(self.cls)._primary_key = None
    THEN Outcome(self, rows, NoStmt, "ValueError", NoObj)
    ELSE LET merged == set_fields(self, kwargs)
             all == to_dict(merged)
             primary_key_value == Lookup(all, Meta(self.cls)._primary_key)
             data == pop(all, Meta(self.cls)._primary_key)
             query == BaseModel_update_query(Meta(self.cls)._table_name, data,
                                             Meta(self.cls)._primary_key, primary_key_value)
         IN  IF data = <<>>
             THEN Outcome(merged, rows, NoStmt, "ok", NoObj)
             ELSE Executed(merged, query, pg_execute(cat, rows, query))

\* a delete that reports a key no row has
BaseModel_delete_reporting(self, cat, rows) ==
    IF Meta(self.cls)._primary_key = None
    THEN Outcome(self, rows, NoStmt, "ValueError", NoObj)
    ELSE LET primary_key_value == getattr(self, Meta(self.cls)._primary_key)
             query == BaseModel_delete_query(Meta(self.cls)._table_name,
                                             Meta(self.cls)._primary_key, primary_key_value)
             res == pg_execute(cat, rows, query)
         IN  IF res.ok /\ res.count = 0
             THEN Outcome(self, res.rows, query, "NotFound", NoObj)
             ELSE Executed(self, query, res)

BaseModel_delete(self, cat, rows) ==
    IF Meta(self.cls)._primary_key = None
    THEN Outcome(self, rows, NoStmt, "ValueError", NoObj)
    ELSE LET primary_key_value == getattr(self, Meta(self.cls)._primary_key)
             query == BaseModel_delete_query(Meta(self.cls)._table_name,
                                             Meta(self.cls)._primary_key, primary_key_value)
         IN  Executed(self, query, pg_execute(cat, rows, query))

\* query of find_all, lines 253-257
BaseModel_find_all_query(table_name, limit, offset) ==
    [NoStmt EXCEPT !.verb = "SELECT", !.table = table_name,
                   !.limit = IF truthy(limit) THEN limit ELSE PyNone,
                   !.offset = IF truthy(offset) THEN offset ELSE PyNone]

\* the database takes a non-negative integer after LIMIT and after OFFSET,
\* and no clause at all; the str values tried are no number
CountAccepted(value) ==
    \/ value = PyNone
    \/ value.type = "int" /\ value.int >= 0

Min(a, b) == IF a <= b THEN a ELSE b

\* con.fetch of SELECT * FROM table [LIMIT n] [OFFSET m]: without ORDER BY the
\* database may skip any m rows and return any n of the others
pg_fetch_window(rows, stmt) ==
    LET all == rows[stmt.table]
        skipped == IF stmt.offset = PyNone THEN 0 ELSE Min(stmt.offset.int, Cardinality(all))
        left == Cardinality(all) - skipped
        count == IF stmt.limit = PyNone THEN left ELSE Min(stmt.limit.int, left)
    IN  {got \in SUBSET all : Cardinality(got) = count}

\* find_all: the lists it may return, as sets of instances
BaseModel_find_all(cls, limit, offset, cat, rows) ==
    LET query == BaseModel_find_all_query(Meta(cls)._table_name, limit, offset)
    IN  IF \/ ~cat[query.table].exists
           \/ ~CountAccepted(query.limit)
           \/ ~CountAccepted(query.offset)
        THEN {[stmt |-> query, outcome |-> "QueryError", returned |-> {}]}
        ELSE {[stmt |-> query, outcome |-> "ok",
               returned |-> {from_dict(cls, row) : row \in got}] :
                 got \in pg_fetch_window(rows, query)}

\* query of get_related, line 320
BaseModel_get_related_query(reference_table, reference_field, foreign_key_value) ==
    [NoStmt EXCEPT !.verb = "SELECT", !.table = reference_table,
                   !.has_where = TRUE,
                   !.where = <<<<reference_field, 1>>>>,
                   !.args = <<foreign_key_value>>]

\* get_related: ret is NoObj for None; the row found is returned as a dict
BaseModel_get_related(self, field_name, cat, rows) ==
    IF ~HasKey(Meta(self.cls)._foreign_keys, field_name)
    THEN Outcome(self, rows, NoStmt, "ValueError", NoObj)
    ELSE IF getattr(self, field_name) = None
         THEN Outcome(self, rows, NoStmt, "ok", NoObj)
         ELSE LET fk_info == Lookup(Meta(self.cls)._foreign_keys, field_name)
                  query == BaseModel_get_related_query(fk_info.reference_table,
                                                       fk_info.reference_field,
                                                       getattr(self, field_name))
                  found == pg_fetch(cat, rows, query)
              IN  IF ~cat[query.table].exists
                  THEN Outcome(self, rows, query, "QueryError", NoObj)
                  ELSE IF found = {}
                       THEN Outcome(self, rows, query, "ok", NoObj)
                       ELSE Outcome(self, rows, query, "ok",
                                    [cls |-> "dict", dict |-> CHOOSE row \in found : TRUE])

\* query of find_by_foreign_key, line 338
BaseModel_find_by_foreign_key_query(table_name, field_name, foreign_key_value) ==
    [NoStmt EXCEPT !.verb = "SELECT", !.table = table_name,
                   !.has_where = TRUE,
                   !.where = <<<<field_name, 1>>>>,
                   !.args = <<foreign_key_value>>]

\* find_by_foreign_key: the list it returns, as a set of instances
BaseModel_find_by_foreign_key(cls, field_name, foreign_key_value, cat, rows) ==
    IF ~HasKey(Meta(cls)._foreign_keys, field_name)
    THEN [stmt |-> NoStmt, outcome |-> "ValueError", returned |-> {}]
    ELSE LET query == BaseModel_find_by_foreign_key_query(Meta(cls)._table_name, field_name,
                                                          foreign_key_value)
         IN  IF ~cat[query.table].exists
             THEN [stmt |-> query, outcome |-> "QueryError", returned |-> {}]
             ELSE [stmt |-> query, outcome |-> "ok",
                   returned |-> {from_dict(cls, row) : row \in pg_fetch(cat, rows, query)}]

----------------------------------------------------------------------------
(* The entity layer as a state machine *)

NumSlots == 1

\* the values tried for a field of a class
FieldValues(cls, field_name) ==
    CASE cls = "Product" /\ field_name = "id" -> {"1", "2"}
      [] cls = "Product" /\ field_name = "in_stock" -> {"False", None}
      [] cls = "Product" /\ field_name = "name" -> {"a"}
      [] cls = "NoKeyModel" /\ field_name = "name" -> {"a"}
      [] cls = "User" /\ field_name = "id" -> {"1", "2"}
      [] cls = "Post" /\ field_name = "id" -> {"1"}
      [] cls = "Post" /\ field_name = "user_id" -> {"1", "2"}
      [] cls = "Comment" /\ field_name = "id" -> {"1"}
      [] cls = "Comment" /\ field_name = "post_id" -> {"1"}
      [] cls = "Comment" /\ field_name = "user_id" -> {"2", None}
      [] OTHER -> {}

\* every choice of values for some of the named fields
PartialMaps(cls, names) ==
    {kw \in UNION {[S -> UNION {FieldValues(cls, f) : f \in S}] : S \in SUBSET names} :
        \A f \in DOMAIN kw : kw[f] \in FieldValues(cls, f)}

\* the keyword arguments tried for a class: every choice of values for some of
\* its fields, and one keyword that is no field
ProductKwargs ==
    PartialMaps("Product", {"id", "in_stock", "name"}) \cup {[k \in {"nickname"} |-> "a"]}
NoKeyModelKwargs == PartialMaps("NoKeyModel", {"name"}) \cup {[k \in {"nickname"} |-> "a"]}
\* for the related classes the keyword that is no field is the name of a
\* class attribute
UserKwargs == PartialMaps("User", {"id"}) \cup {[k \in {"_primary_key"} |-> "a"]}
PostKwargs == PartialMaps("Post", {"id", "user_id"}) \cup {[k \in {"_primary_key"} |-> "a"]}
CommentKwargs ==
    PartialMaps("Comment", {"id", "post_id", "user_id"}) \cup {[k \in {"_primary_key"} |-> "a"]}

KwargsTried(cls) ==
    CASE cls = "Product" -> ProductKwargs
      [] cls = "NoKeyModel" -> NoKeyModelKwargs
      [] cls = "User" -> UserKwargs
      [] cls = "Post" -> PostKwargs
      [] cls = "Comment" -> CommentKwargs

\* the last call: its operation, the class it was called on, the slot of its
\* instance, the fields its keywords named, how it ended, the statement it
\* handed to the database and whether it returned an instance
NoCall == [op |-> "none", cls |-> "", slot |-> 0, named |-> {}, outcome |-> "ok",
           stmt |-> NoStmt, found |-> FALSE, args |-> <<>>, returned |-> {}]

Call(op, cls, slot, named, outcome, stmt, found) ==
    [op |-> op, cls |-> cls, slot |-> slot, named |-> named, outcome |-> outcome,
     stmt |-> stmt, found |-> found, args |-> <<>>, returned |-> {}]

\* no ConnectionPool object was constructed
NoPoolCall == [op |-> "none", obj |-> 0, outcome |-> "ok"]

NoPool ==
    /\ environ = [k \in {"DATABASE_URL"} |-> "dsn"]
    /\ cp_objs = <<>>
    /\ driver_pools = <<>>
    /\ pool_last = NoPoolCall

\* the classes are declared, no table is created, no instance is built
OrmInit(classes, slots) ==
    /\ schema = [c \in classes |-> ModelMeta_new(Body(c))]
    /\ catalog = [t \in {ModelMeta_new(Body(c))._table_name : c \in classes} |-> NoTable]
    /\ db_rows = [t \in {ModelMeta_new(Body(c))._table_name : c \in classes} |-> {}]
    /\ objs = [s \in 1..slots |-> NoObj]
    /\ last = NoCall

EnsureTableExists(cls) ==
    /\ ensure_table_exists(cls, catalog).ok
    /\ catalog' = ensure_table_exists(cls, catalog).cat
    /\ last' = Call("ensure_table_exists", cls, 0, {}, "ok", NoStmt, FALSE)
    /\ UNCHANGED <<db_rows, objs, schema>>

Construct(s, cls, kwargs) ==
    /\ objs' = [objs EXCEPT ![s] = BaseModel_init(cls, kwargs)]
    /\ last' = Call("__init__", cls, s, {}, "ok", NoStmt, FALSE)
    /\ UNCHANGED <<catalog, db_rows, schema>>

Assign(s, field_name, value) ==
    /\ objs[s] # NoObj
    /\ field_name \in FieldNames(objs[s].cls)
    /\ objs' = [objs EXCEPT ![s] = setattr(objs[s], field_name, value)]
    /\ last' = Call("__set__", objs[s].cls, s, {}, "ok", NoStmt, FALSE)
    /\ UNCHANGED <<catalog, db_rows, schema>>

Save(s) ==
    /\ objs[s] # NoObj
    /\ \E r \in {BaseModel_save(objs[s], catalog, db_rows)} :
           /\ db_rows' = r.rows
           /\ last' = Call("save", objs[s].cls, s, {}, r.outcome, r.stmt, FALSE)
    /\ UNCHANGED <<catalog, objs, schema>>

FindById(s, cls, id_value) ==
    /\ \E r \in {BaseModel_find_by_id(cls, id_value, catalog, db_rows)} :
           /\ objs' = IF r.ret # NoObj THEN [objs EXCEPT ![s] = r.ret] ELSE objs
           /\ last' = Call("find_by_id", cls, s, {}, r.outcome, r.stmt, r.ret # NoObj)
    /\ UNCHANGED <<catalog, db_rows, schema>>

Update(s, kwargs) ==
    /\ objs[s] # NoObj
    /\ \E r \in {BaseModel_update(objs[s], kwargs, catalog, db_rows)} :
           /\ objs' = [objs EXCEPT ![s] = r.self]
           /\ db_rows' = r.rows
           /\ last' = [Call("update", objs[s].cls, s,
                             DOMAIN kwargs \cap FieldNames(objs[s].cls),
                             r.outcome, r.stmt, FALSE)
                            EXCEPT !.args = <<kwargs>>]
    /\ UNCHANGED <<catalog, schema>>

Delete(s) ==
    /\ objs[s] # NoObj
    /\ \E r \in {BaseModel_delete(objs[s], catalog, db_rows)} :
           /\ db_rows' = r.rows
           /\ last' = Call("delete", objs[s].cls, s, {}, r.outcome, r.stmt, FALSE)
    /\ UNCHANGED <<catalog, objs, schema>>

\* the classes declared in this run
Declared == DOMAIN schema

Live == {s \in DOMAIN objs : objs[s] # NoObj}

DoEnsureTableExists ==
    /\ \E cls \in Declared : EnsureTableExists(cls)
    /\ UNCHANGED <<builderVars, poolVars>>

DoConstruct ==
    /\ \E s \in DOMAIN objs, cls \in Declared : \E kwargs \in KwargsTried(cls) :
           Construct(s, cls, kwargs)
    /\ UNCHANGED <<builderVars, poolVars>>

DoAssign ==
    /\ \E s \in Live : \E f \in FieldNames(objs[s].cls) : \E v \in FieldValues(objs[s].cls, f) :
           Assign(s, f, v)
    /\ UNCHANGED <<builderVars, poolVars>>

DoSave ==
    /\ \E s \in Live : Save(s)
    /\ UNCHANGED <<builderVars, poolVars>>

DoFindById ==
    /\ \E s \in DOMAIN objs, cls \in Declared :
           \E id_value \in FieldValues(cls, "id") \cup {None} : FindById(s, cls, id_value)
    /\ UNCHANGED <<builderVars, poolVars>>

DoUpdate ==
    /\ \E s \in Live : \E kwargs \in KwargsTried(objs[s].cls) : Update(s, kwargs)
    /\ UNCHANGED <<builderVars, poolVars>>

DoDelete ==
    /\ \E s \in Live : Delete(s)
    /\ UNCHANGED <<builderVars, poolVars>>

MaxCount == 1

\* the values passed as limit and as offset
CountsTried == {PyNone, PyStr("x")} \cup {PyInt(n) : n \in -1..MaxCount}

\* cls.find_all(limit=limit, offset=offset)
DoFindAll ==
    /\ \E cls \in Declared, limit \in CountsTried, offset \in CountsTried :
           \E r \in BaseModel_find_all(cls, limit, offset, catalog, db_rows) :
               last' = [Call("find_all", cls, 0, {}, r.outcome, r.stmt, r.returned # {})
                            EXCEPT !.args = <<limit, offset>>, !.returned = r.returned]
    /\ UNCHANGED <<catalog, db_rows, objs, schema, builderVars, poolVars>>

\* self.get_related(field_name), for every field name of the class
DoGetRelated ==
    /\ \E s \in Live : \E field_name \in FieldNames(objs[s].cls) :
           \E r \in {BaseModel_get_related(objs[s], field_name, catalog, db_rows)} :
               last' = [Call("get_related", objs[s].cls, s, {field_name}, r.outcome, r.stmt,
                             r.ret # NoObj)
                            EXCEPT !.returned = IF r.ret # NoObj THEN {r.ret} ELSE {}]
    /\ UNCHANGED <<catalog, db_rows, objs, schema, builderVars, poolVars>>

\* cls.find_by_foreign_key(field_name, foreign_key_value)
DoFindByForeignKey ==
    /\ \E cls \in Declared : \E field_name \in FieldNames(cls) :
           \E foreign_key_value \in FieldValues(cls, field_name) :
               \E r \in {BaseModel_find_by_foreign_key(cls, field_name, foreign_key_value,
                                                       catalog, db_rows)} :
                   last' = [Call("find_by_foreign_key", cls, 0, {field_name}, r.outcome,
                                 r.stmt, r.returned # {})
                                EXCEPT !.returned = r.returned]
    /\ UNCHANGED <<catalog, db_rows, objs, schema, builderVars, poolVars>>

Next ==
    \/ DoEnsureTableExists
    \/ DoConstruct
    \/ DoAssign
    \/ DoSave
    \/ DoFindById
    \/ DoUpdate
    \/ DoDelete

CrudClasses == {"Product", "NoKeyModel"}

\* no builder was called
NoBuilderCall ==
    /\ q_data = <<>>
    /\ q_conds = <<>>
    /\ emitted = NoStmt

Init ==
    /\ OrmInit(CrudClasses, NumSlots)
    /\ NoBuilderCall
    /\ NoPool

Spec == Init /\ [][Next]_vars

----------------------------------------------------------------------------
(* Properties of the entity operations *)

\* the classes that declare a primary key
Keyed == {cls \in Declared : Meta(cls)._primary_key # None}

\* the rows of the class's table whose primary key is p
Stored(cls, p, rows) ==
    {r \in rows[Meta(cls)._table_name] : p # None /\ r[Meta(cls)._primary_key] = p}

\* what find_by_id(p) returns, NoObj for None
Found(cls, p, cat, rows) == BaseModel_find_by_id(cls, p, cat, rows).ret

\* the primary-key value of an instance
KeyOf(self) == getattr(self, Meta(self.cls)._primary_key)

(* C2: when save() of an instance of a class with a primary key succeeds,
   find_by_id of the instance's key returns an instance that has, for every
   field the saved instance was given a value for, that same value. *)
C2_SaveThenFindById ==
    (last.op = "save" /\ last.outcome = "ok" /\ last.cls \in Keyed) =>
        LET self == objs[last.slot]
            res == BaseModel_find_by_id(self.cls, KeyOf(self), catalog, db_rows)
        IN  /\ res.outcome = "ok"
            /\ res.ret # NoObj
            /\ \A f \in DOMAIN self.dict : getattr(res.ret, f) = self.dict[f]

C2_Witness ==
    /\ last.op = "save"
    /\ last.outcome = "ok"
    /\ last.cls = "Product"
    /\ DOMAIN objs[last.slot].dict = {"id", "in_stock", "name"}
    /\ Found("Product", KeyOf(objs[last.slot]), catalog, db_rows) # NoObj

\* a step in which update() on the instance in slot s, whose key p has a
\* stored row, ended without raising
UpdatedStoredRow(s) ==
    /\ last'.op = "update"
    /\ last'.slot = s
    /\ last'.outcome = "ok"
    /\ objs[s] # NoObj
    /\ objs[s].cls \in Keyed
    /\ Stored(objs[s].cls, KeyOf(objs[s]), db_rows) # {}

(* C3 as stated: after a successful update(f=v), f not the primary key, of
   an instance whose key p has a stored row, find_by_id(p) returns an
   instance where every named field f equals v and every field not named
   equals what the stored row held before the update. *)
C3_UnnamedFieldsKeepStoredValue ==
    [][\A s \in DOMAIN objs :
          (UpdatedStoredRow(s) /\ Meta(objs[s].cls)._primary_key \notin last'.named) =>
              LET cls == objs[s].cls
                  p == KeyOf(objs[s])
                  old == CHOOSE r \in Stored(cls, p, db_rows) : TRUE
                  got == Found(cls, p, catalog', db_rows')
              IN  /\ got # NoObj
                  /\ \A f \in last'.named : getattr(got, f) = objs'[s].dict[f]
                  /\ \A f \in FieldNames(cls) \ last'.named : getattr(got, f) = old[f]]_vars

(* C3: after a successful update(f=v) that does not name the primary key, of
   an instance whose key p has a stored row, find_by_id(p) returns an instance
   where every named field f equals v, every other field the instance holds
   a value for equals the instance's value, and only the fields the instance
   holds no value for keep what the stored row held before the update. *)
C3_UpdateWritesInstanceFields ==
    [][\A s \in DOMAIN objs :
          (UpdatedStoredRow(s) /\ Meta(objs[s].cls)._primary_key \notin last'.named) =>
              LET cls == objs[s].cls
                  p == KeyOf(objs[s])
                  old == CHOOSE r \in Stored(cls, p, db_rows) : TRUE
                  got == Found(cls, p, catalog', db_rows')
              IN  /\ got # NoObj
                  /\ \A f \in last'.named : getattr(got, f) = objs'[s].dict[f]
                  /\ \A f \in FieldNames(cls) :
                         getattr(got, f) = IF hasattr(objs'[s], f)
                                           THEN getattr(objs'[s], f)
                                           ELSE old[f]]_vars

\* update(name=...) has written the instance's in_stock, which the call did not name
C3_Witness ==
    /\ last.op = "update"
    /\ last.outcome = "ok"
    /\ last.stmt.verb = "UPDATE"
    /\ last.named = {"name"}
    /\ DOMAIN objs[last.slot].dict = {"id", "in_stock", "name"}
    /\ objs[last.slot].dict["in_stock"] = "False"
    /\ Stored("Product", KeyOf(objs[last.slot]), db_rows) # {}
    /\ getattr(Found("Product", KeyOf(objs[last.slot]), catalog, db_rows), "in_stock") = "False"

(* C4: after delete() succeeds on an instance with key p, find_by_id(p)
   returns None; find_by_id of a key no row of an existing table has returns
   None without raising; and find_by_id(p) goes from None to an instance
   only by a successful save of an instance with key p. *)
C4_DeleteThenFindById ==
    /\ [](/\ (last.op = "delete" /\ last.outcome = "ok") =>
                LET self == objs[last.slot]
                    res == BaseModel_find_by_id(self.cls, KeyOf(self), catalog, db_rows)
                IN  res.outcome = "ok" /\ res.ret = NoObj
          /\ \A cls \in Keyed : \A p \in FieldValues(cls, "id") \cup {None} :
                (catalog[Meta(cls)._table_name].exists /\ Stored(cls, p, db_rows) = {}) =>
                    LET res == BaseModel_find_by_id(cls, p, catalog, db_rows)
                    IN  res.outcome = "ok" /\ res.ret = NoObj)
    /\ [][\A cls \in Keyed : \A p \in FieldValues(cls, "id") :
             (Found(cls, p, catalog, db_rows) = NoObj
                 /\ Found(cls, p, catalog', db_rows') # NoObj) =>
                 /\ last'.op = "save"
                 /\ last'.outcome = "ok"
                 /\ last'.cls = cls
                 /\ KeyOf(objs'[last'.slot]) = p]_vars

\* the deleted row was the only one with its key, another row is still stored
C4_Witness ==
    /\ last.op = "delete"
    /\ last.outcome = "ok"
    /\ last.cls = "Product"
    /\ KeyOf(objs[last.slot]) = "1"
    /\ Stored("Product", "1", db_rows) = {}
    /\ Stored("Product", "2", db_rows) # {}

(* C5: on a class that declares no primary key, find_by_id, update and
   delete raise ValueError, hand no statement to the database, and leave
   the rows and the instance as they were. *)
C5_NoPrimaryKeyRaisesFirst ==
    /\ []((last.op \in {"find_by_id", "update", "delete"} /\ last.cls \notin Keyed) =>
             /\ last.outcome = "ValueError"
             /\ last.stmt = NoStmt
             /\ ~last.found)
    /\ [][(last'.op \in {"find_by_id", "update", "delete"} /\ last'.cls \notin Keyed) =>
             /\ db_rows' = db_rows
             /\ catalog' = catalog
             /\ objs' = objs]_vars

\* update(name=...) of an instance that was never given a name
C5_Witness ==
    /\ last.op = "update"
    /\ last.cls = "NoKeyModel"
    /\ last.outcome = "ValueError"
    /\ last.named = {"name"}
    /\ "name" \notin DOMAIN objs[last.slot].dict

(* C21: when the statement of update() raises, the call ends with the
   database's error, no stored row has changed, and the instance holds the
   values the keywords gave for its fields, every other attribute being as it
   was before the call; a stored row with the instance's key then differs
   from the instance in some field the instance holds. *)
C21_FailedUpdateKeepsNewValues ==
    [][(/\ last'.op = "update"
        /\ last'.stmt # NoStmt
        /\ ~pg_execute(catalog, db_rows, last'.stmt).ok) =>
           LET before == objs[last'.slot]
               after == objs'[last'.slot]
               kwargs == last'.args[1]
           IN  /\ last'.outcome = "QueryError"
               /\ db_rows' = db_rows
               /\ after.cls = before.cls
               /\ DOMAIN after.dict = DOMAIN before.dict \cup last'.named
               /\ \A f \in last'.named : after.dict[f] = kwargs[f]
               /\ \A f \in DOMAIN before.dict \ last'.named : after.dict[f] = before.dict[f]
               /\ \A r \in Stored(last'.cls, KeyOf(after), db_rows') :
                      \E i \in DOMAIN to_dict(after) :
                          r[to_dict(after)[i][1]] # to_dict(after)[i][2]]_vars

\* update(in_stock=None) on a stored Product violated NOT NULL: the row still
\* says True, the instance says None
C21_Witness ==
    /\ last.op = "update"
    /\ last.cls = "Product"
    /\ last.outcome = "QueryError"
    /\ last.named = {"in_stock"}
    /\ catalog["product"].exists
    /\ objs[last.slot].dict["in_stock"] = None
    /\ \E r \in Stored("Product", KeyOf(objs[last.slot]), db_rows) : r["in_stock"] = "True"

\* the primary-key values stored in the table of a class
StoredKeys(cls, rows) ==
    {r[Meta(cls)._primary_key] : r \in rows[Meta(cls)._table_name]}

(* C22: update() changes no stored row's primary key: the table holds the
   same keys, in as many rows, before and after, and no other table changes.
   When the keywords name the primary key, the instance's key becomes the
   keyword's value, the statement's WHERE compares the key column with that
   value, every row with another key (the instance's former one included) is
   left as it was, and after a successful call a row with the new key holds
   the instance's value in every field the instance holds. *)
C22_UpdateKeepsStoredKeys ==
    [][last'.op = "update" =>
           LET cls == last'.cls
               primary_key == Meta(cls)._primary_key
               table == Meta(cls)._table_name
               after == objs'[last'.slot]
               kwargs == last'.args[1]
               stmt == last'.stmt
           IN  /\ \A t \in DOMAIN db_rows \ {table} : db_rows'[t] = db_rows[t]
               /\ primary_key = None => db_rows' = db_rows
               /\ primary_key # None =>
                      /\ StoredKeys(cls, db_rows') = StoredKeys(cls, db_rows)
                      /\ Cardinality(db_rows'[table]) = Cardinality(db_rows[table])
               /\ (primary_key # None /\ primary_key \in last'.named) =>
                      /\ KeyOf(after) = kwargs[primary_key]
                      /\ stmt # NoStmt =>
                             /\ stmt.where = <<<<primary_key, Len(stmt.args)>>>>
                             /\ stmt.args[Len(stmt.args)] = kwargs[primary_key]
                             /\ \A i \in DOMAIN stmt.set : stmt.set[i][1] # primary_key
                      /\ \A r \in db_rows[table] :
                             r[primary_key] # kwargs[primary_key] => r \in db_rows'[table]
                      /\ last'.outcome = "ok" =>
                             \A r \in Stored(cls, kwargs[primary_key], db_rows') :
                                 \A i \in DOMAIN to_dict(after) :
                                     r[to_dict(after)[i][1]] = to_dict(after)[i][2]]_vars

\* rows 1 and 2 are stored; an instance was given the key 1 and in_stock False
\* by update(): row 1 took in_stock False, row 2 holds what it held
C22_Witness ==
    /\ last.op = "update"
    /\ last.cls = "Product"
    /\ last.outcome = "ok"
    /\ last.args = <<[id |-> "1", in_stock |-> "False"]>>
    /\ objs[last.slot].dict["id"] = "1"
    /\ StoredKeys("Product", db_rows) = {"1", "2"}
    /\ \A r \in Stored("Product", "1", db_rows) : r["in_stock"] = "False"
    /\ \A r \in Stored("Product", "2", db_rows) : r["in_stock"] = "True"

(* C23: update() and delete() on an instance of a class with a primary key,
   whose table was created and holds no row with the key the statement
   compares (for update() the key after the keywords were assigned), send
   their statement and return normally: the call ends in no error, every
   table is as it was, and delete() leaves the instance as it was. *)
C23_NoRowNoError ==
    [][(/\ last'.op \in {"update", "delete"}
        /\ Meta(last'.cls)._primary_key # None
        /\ catalog[Meta(last'.cls)._table_name].exists
        /\ Stored(last'.cls, KeyOf(objs'[last'.slot]), db_rows) = {}) =>
           /\ last'.outcome = "ok"
           /\ last'.stmt # NoStmt
           /\ last'.stmt.args[Len(last'.stmt.args)] = KeyOf(objs'[last'.slot])
           /\ db_rows' = db_rows
           /\ last'.op = "delete" => objs' = objs]_vars

\* update(in_stock=False) of a Product with key 2 returned normally while the
\* table holds a row with key 1 only; update() adds and removes no row, so
\* no row had the key before the call either
C23_Witness ==
    /\ last.op = "update"
    /\ last.cls = "Product"
    /\ last.outcome = "ok"
    /\ last.named = {"in_stock"}
    /\ last.stmt.verb = "UPDATE"
    /\ catalog["product"].exists
    /\ KeyOf(objs[last.slot]) = "2"
    /\ StoredKeys("Product", db_rows) = {"1"}
    /\ objs[last.slot].dict["in_stock"] = "False"
    /\ \A r \in db_rows["product"] : r["in_stock"] = "True"

----------------------------------------------------------------------------
(* Entities related by foreign keys: User, Post -> User, Comment -> Post, User *)

RelatedClasses == {"User", "Post", "Comment"}

FKInit ==
    /\ OrmInit(RelatedClasses, NumSlots)
    /\ NoBuilderCall
    /\ NoPool

FKSpec == FKInit /\ [][Next]_vars

\* every operation of the entity layer
AllNext ==
    \/ DoEnsureTableExists
    \/ DoConstruct
    \/ DoAssign
    \/ DoSave
    \/ DoFindById
    \/ DoUpdate
    \/ DoDelete
    \/ DoFindAll
    \/ DoGetRelated
    \/ DoFindByForeignKey

AllSpec == FKInit /\ [][AllNext]_vars

\* the class attributes ModelMeta.__new__ computes
SchemaAttributes == {"_table_name", "_fields", "_foreign_keys", "_primary_key"}

(* C15: the schema of every class (table name, field map, foreign-key map,
   primary key) is what the declaration computed and no operation changes
   it: constructing an instance, assigning a field, save, update, delete,
   find_by_id, find_all, get_related, find_by_foreign_key.  No instance ever
   has an attribute of its own under the name of a schema attribute, so
   every instance reads the schema of its class. *)
C15_SchemaUnchanged ==
    /\ [][schema' = schema]_vars
    /\ [](DOMAIN schema = RelatedClasses)
    /\ [](\A s \in Live :
              /\ objs[s].cls \in DOMAIN schema
              /\ DOMAIN objs[s].dict \cap SchemaAttributes = {}
              /\ DOMAIN objs[s].dict \subseteq FieldNames(objs[s].cls))

\* an instance built with a keyword named like a schema attribute found the
\* row its foreign key refers to
C15_Witness ==
    /\ last.op = "get_related"
    /\ last.cls = "Post"
    /\ last.found
    /\ objs[last.slot].cls = "Post"
    /\ Meta("Post")._primary_key = "id"
    /\ db_rows["post"] # {}

\* a non-negative int
IsCount(value) == value.type = "int" /\ value.int >= 0

\* how many instances find_all is to return for limit and offset when
\* stored rows exist
Window(limit, offset, stored) ==
    LET left == IF offset = PyNone THEN stored
                ELSE IF offset.int >= stored THEN 0 ELSE stored - offset.int
    IN  IF limit = PyNone THEN left ELSE Min(limit.int, left)

(* C19 as stated: find_all with a non-negative integer limit n returns
   min(n, stored rows) instances, with a non-negative integer offset m it
   skips m rows first, and a limit or offset that is neither None nor a
   non-negative integer is rejected with no statement built. *)
C19_LimitAndOffset ==
    last.op = "find_all" =>
        LET limit == last.args[1]
            offset == last.args[2]
        IN  IF (limit = PyNone \/ IsCount(limit)) /\ (offset = PyNone \/ IsCount(offset))
            THEN last.outcome = "ok" =>
                     Cardinality(last.returned)
                         = Window(limit, offset, Cardinality(db_rows[last.stmt.table]))
            ELSE last.stmt = NoStmt /\ last.outcome = "ValueError"

\* the rows of the class's table whose foreign key i references no row
Orphans(cls, i, rows) ==
    LET col == Meta(cls)._foreign_keys[i][1]
        fk == Meta(cls)._foreign_keys[i][2]
    IN  {r \in rows[Meta(cls)._table_name] :
            /\ r[col] # None
            /\ ~\E p \in rows[fk.reference_table] : p[fk.reference_field] = r[col]}

\* the foreign keys of an instance whose value references no stored row
Unreferenced(self, rows) ==
    {i \in DOMAIN Meta(self.cls)._foreign_keys :
        LET col == Meta(self.cls)._foreign_keys[i][1]
            fk == Meta(self.cls)._foreign_keys[i][2]
        IN  /\ hasattr(self, col)
            /\ getattr(self, col) # None
            /\ ~\E p \in rows[fk.reference_table] :
                   p[fk.reference_field] = getattr(self, col)}

(* C6: with the tables created by ensure_table_exists and every foreign key
   declared with the default CASCADE actions, no stored row ever holds a
   non-null foreign-key value that no row of the reference table has; a
   delete() that succeeds removes the row with the instance's key, hence
   with it every row that depended on it; a save() of an instance one of
   whose foreign-key values references no stored row raises and leaves the
   rows as they were. *)
C6_NoDanglingForeignKey ==
    /\ [](\A cls \in Declared : \A i \in DOMAIN Meta(cls)._foreign_keys :
              /\ Meta(cls)._foreign_keys[i][2].on_delete = "CASCADE"
              /\ Orphans(cls, i, db_rows) = {})
    /\ []((last.op = "delete" /\ last.outcome = "ok") =>
              Stored(last.cls, KeyOf(objs[last.slot]), db_rows) = {})
    /\ [][(last'.op = "save" /\ Unreferenced(objs[last'.slot], db_rows) # {}) =>
              /\ last'.outcome = "QueryError"
              /\ db_rows' = db_rows]_vars

\* Post(id=1, user_id=2).save() was refused although no post is stored: user 2 is not
C6_Witness ==
    /\ last.op = "save"
    /\ last.cls = "Post"
    /\ last.outcome = "QueryError"
    /\ catalog["post"].exists
    /\ db_rows["post"] = {}
    /\ db_rows["user"] # {}
    /\ DOMAIN objs[last.slot].dict = {"id", "user_id"}
    /\ Unreferenced(objs[last.slot], db_rows) # {}

\* what update() is about to write for the instance of the last call: its
\* to_dict() without the primary key
HeldData(self) == pop(to_dict(self), Meta(self.cls)._primary_key)

\* the statement of an update() that sent one: UPDATE of the class's table,
\* the primary key in no SET item, WHERE the primary key alone, bound to the
\* instance's key
KeyedUpdate(stmt, self) ==
    /\ stmt.verb = "UPDATE"
    /\ stmt.table = Meta(self.cls)._table_name
    /\ \A i \in DOMAIN stmt.set : stmt.set[i][1] # Meta(self.cls)._primary_key
    /\ stmt.has_where
    /\ Len(stmt.where) = 1
    /\ stmt.where[1][1] = Meta(self.cls)._primary_key
    /\ stmt.args[stmt.where[1][2]] = getattr(self, Meta(self.cls)._primary_key)

(* C14 as stated: an update() that changes no field of the instance (no
   keyword, or values equal to the current ones) sends no statement; and a
   statement that is sent keeps the primary key out of SET and has the
   primary key alone in WHERE. *)
C14_UnchangedUpdateSendsNothing ==
    /\ [][(/\ last'.op = "update"
           /\ last'.outcome = "ok"
           /\ objs'[last'.slot] = objs[last'.slot]) => last'.stmt = NoStmt]_vars
    /\ []((last.op = "update" /\ last.stmt # NoStmt) =>
              KeyedUpdate(last.stmt, objs[last.slot]))

(* C14, amended: update() on a class with a primary key sends no statement
   exactly when the instance holds no field besides the primary key; in
   every other case, with or without keywords, it sends one UPDATE whose SET
   list is every held field but the primary key, and whose WHERE is the
   primary key alone. *)
C14_UpdateSendsHeldFields ==
    (last.op = "update" /\ last.outcome # "ValueError") =>
        /\ last.stmt = NoStmt <=> HeldData(objs[last.slot]) = <<>>
        /\ last.stmt # NoStmt =>
               /\ KeyedUpdate(last.stmt, objs[last.slot])
               /\ [i \in DOMAIN last.stmt.set |-> last.stmt.set[i][1]]
                      = keys(HeldData(objs[last.slot]))

\* update() with no keyword on a stored Post sent a statement
C14_Witness ==
    /\ last.op = "update"
    /\ last.cls = "Post"
    /\ last.named = {}
    /\ last.outcome = "ok"
    /\ last.stmt # NoStmt
    /\ Stored("Post", KeyOf(objs[last.slot]), db_rows) # {}

----------------------------------------------------------------------------
(* Several instances of Product, hydrated from one row *)

NumInstances == 2

PairInit ==
    /\ OrmInit({"Product"}, NumInstances)
    /\ NoBuilderCall
    /\ NoPool

\* Product(id=1, name="a")
PairConstruct ==
    /\ \E s \in DOMAIN objs : Construct(s, "Product", [id |-> "1", name |-> "a"])
    /\ UNCHANGED <<builderVars, poolVars>>

\* Product.find_by_id(1)
PairFindById ==
    /\ \E s \in DOMAIN objs : FindById(s, "Product", "1")
    /\ UNCHANGED <<builderVars, poolVars>>

\* update(in_stock=False), update(name="b")
PairKwargs == {[k \in {"in_stock"} |-> "False"], [k \in {"name"} |-> "b"]}

PairUpdate ==
    /\ \E s \in Live : \E kwargs \in PairKwargs : Update(s, kwargs)
    /\ UNCHANGED <<builderVars, poolVars>>

PairNext ==
    \/ DoEnsureTableExists
    \/ PairConstruct
    \/ DoSave
    \/ PairFindById
    \/ PairUpdate

PairSpec == PairInit /\ [][PairNext]_vars

(* C20: after an update() that succeeded on a stored row, the row holds the
   instance's value in every field the instance holds; in particular every
   field the call did not name now holds the value the instance had before
   the call, whatever the row held.  So of two instances read from one row,
   the one that updates later puts its old value over the other's change. *)
C20_UpdateWritesStaleFields ==
    /\ []((/\ last.op = "update"
           /\ last.outcome = "ok"
           /\ last.stmt # NoStmt) =>
              \A r \in Stored(last.cls, KeyOf(objs[last.slot]), db_rows) :
                  \A i \in DOMAIN to_dict(objs[last.slot]) :
                      r[to_dict(objs[last.slot])[i][1]] = to_dict(objs[last.slot])[i][2])
    /\ [][(/\ last'.op = "update"
           /\ last'.outcome = "ok"
           /\ last'.stmt # NoStmt) =>
              \A r \in Stored(last'.cls, KeyOf(objs'[last'.slot]), db_rows') :
                  \A f \in (FieldNames(last'.cls) \ last'.named)
                               \ {Meta(last'.cls)._primary_key} :
                      hasattr(objs[last'.slot], f) => r[f] = getattr(objs[last'.slot], f)]_vars

\* two instances of the row with key 1: the first set in_stock to False, the
\* second then set name to "b", and the row is back at the second's in_stock
C20_Witness ==
    /\ last.op = "update"
    /\ last.slot = 2
    /\ last.named = {"name"}
    /\ last.outcome = "ok"
    /\ objs[1].cls = "Product"
    /\ DOMAIN objs[1].dict = {"id", "in_stock", "name"}
    /\ DOMAIN objs[2].dict = {"id", "in_stock", "name"}
    /\ objs[1].dict["id"] = "1"
    /\ objs[2].dict["id"] = "1"
    /\ objs[1].dict["in_stock"] = "False"
    /\ objs[2].dict["in_stock"] = "True"
    /\ db_rows["product"] = {[id |-> "1", in_stock |-> "True", name |-> "b"]}

----------------------------------------------------------------------------
(* The builders applied to every small data and conditions dict *)

MaxLen == 2

Columns == {"a", "b", "c"}

ArgValues == {"1", "2"}

Dicts(n) ==
    UNION {{d \in [1..m -> Columns \X ArgValues] :
               \A i, j \in 1..m : i # j => d[i][1] # d[j][1]} : m \in 0..n}

BuilderInit ==
    /\ q_data \in Dicts(MaxLen)
    /\ q_conds \in Dicts(MaxLen)
    /\ emitted = NoStmt
    /\ OrmInit({}, 0)
    /\ NoPool

Call_create ==
    /\ emitted' = ConnectionPool_create("t", q_data)
    /\ UNCHANGED <<q_data, q_conds, ormVars, poolVars>>

Call_read ==
    /\ emitted' = ConnectionPool_read("t", q_conds)
    /\ UNCHANGED <<q_data, q_conds, ormVars, poolVars>>

Call_update ==
    /\ emitted' = ConnectionPool_update("t", q_data, q_conds)
    /\ UNCHANGED <<q_data, q_conds, ormVars, poolVars>>

Call_delete ==
    /\ emitted' = ConnectionPool_delete("t", q_conds)
    /\ UNCHANGED <<q_data, q_conds, ormVars, poolVars>>

\* BaseModel.update past its early returns: the instance's dict is q_conds[1]
\* (the primary key, always first among the declared fields) followed by q_data
Call_BaseModel_update ==
    /\ Len(q_conds) = 1
    /\ ~HasKey(q_data, q_conds[1][1])
    /\ q_data # <<>>
    /\ emitted' = BaseModel_update_query("t", q_data, q_conds[1][1], q_conds[1][2])
    /\ UNCHANGED <<q_data, q_conds, ormVars, poolVars>>

BuilderNext ==
    \/ Call_create
    \/ Call_read
    \/ Call_update
    \/ Call_delete
    \/ Call_BaseModel_update

BuilderSpec == BuilderInit /\ [][BuilderNext]_vars

\* the dict a clause of the emitted statement takes its values from
InsertSource == q_data
SetSource == q_data
WhereSource == q_conds

(* C1: every builder numbers its placeholders $1..$n without gap or repeat
   in the order of the text, n being the length of the argument list, and
   the argument at position k is the value its dict holds for the column
   that $k is written next to; UPDATE's arguments are the data values
   followed by the condition values. *)
C1_PlaceholdersMatchArguments ==
    emitted.verb # "none" =>
        /\ Placeholders(emitted) = [k \in 1..Len(emitted.args) |-> k]
        /\ Len(emitted.cols) = Len(emitted.vals)
        /\ \A i \in DOMAIN emitted.cols :
               emitted.args[emitted.vals[i]] = Lookup(InsertSource, emitted.cols[i])
        /\ \A i \in DOMAIN emitted.set :
               emitted.args[emitted.set[i][2]] = Lookup(SetSource, emitted.set[i][1])
        /\ \A i \in DOMAIN emitted.where :
               emitted.args[emitted.where[i][2]] = Lookup(WhereSource, emitted.where[i][1])
        /\ emitted.verb = "UPDATE" =>
               /\ [i \in DOMAIN emitted.set |-> emitted.set[i][2]] = [k \in 1..Len(q_data) |-> k]
               /\ emitted.args = values(q_data) \o values(q_conds)

C1_Witness ==
    /\ emitted.verb = "UPDATE"
    /\ emitted.returning
    /\ Len(q_data) = 2
    /\ Len(q_conds) = 2
    /\ q_data[1][2] # q_data[2][2]
    /\ q_conds[1][2] # q_data[1][2]
    /\ emitted.where[1][2] = 3

(* C12 as stated: read, update and delete never emit a statement whose text
   holds the keyword WHERE with no predicate after it: with empty conditions
   WHERE is left out (or the call is rejected and nothing is emitted). *)
C12_NoEmptyWhere ==
    emitted.has_where => emitted.where # <<>>

----------------------------------------------------------------------------
(* ConnectionPool, db.py.  A driver pool is what asyncpg.create_pool gives:   *)
(* it hands out at most max_size connections, makes pool.acquire() wait when  *)
(* all are handed out, refuses pool.acquire() once close() was called, and    *)
(* close() returns when every connection was given back.  The coroutines     *)
(* inside the methods of an object are counted: those waiting in              *)
(* pool.acquire(), those inside the async with block, those awaiting close(). *)

\* max_size=10 of asyncpg.create_pool(...)
max_size == 10

\* os.getenv(name)
getenv(env, name) == IF name \in DOMAIN env THEN env[name] ELSE None

\* asyncpg.create_pool(dsn=dsn, min_size=1, max_size=10, ...)
create_pool(dsn) ==
    [dsn |-> dsn, max_size |-> max_size, closing |-> FALSE, closed |-> FALSE,
     checked_out |-> 0]

\* the class attribute _pool: asyncpg.Pool | None = None, which an object
\* reads until it assigns self._pool; a pool is named by its position in
\* driver_pools, counted from 1, and 0 names no pool
ConnectionPool_pool == 0

ConnectionPool_new ==
    [_pool |-> ConnectionPool_pool, acquiring |-> 0, holding |-> 0, closers |-> 0]

Returned(self, pools) == [raised |-> "", self |-> self, pools |-> pools]

Raises(error, self, pools) == [raised |-> error, self |-> self, pools |-> pools]

ConnectionPool_init_unchecked(self, env, pools) ==
    IF self._pool # ConnectionPool_pool
    THEN Returned(self, pools)
    ELSE Returned([self EXCEPT !._pool = Len(pools) + 1],
                  Append(pools, create_pool(getenv(env, "DATABASE_URL"))))

ConnectionPool_init(self, env, pools) ==
    IF self._pool # ConnectionPool_pool
    THEN Returned(self, pools)
    ELSE LET dsn == getenv(env, "DATABASE_URL")
         IN  IF dsn = None \/ dsn = ""
             THEN Raises("ValueError", self, pools)
             ELSE Returned([self EXCEPT !._pool = Len(pools) + 1],
                           Append(pools, create_pool(dsn)))

\* the pool returned is .self._pool
get_pool(self, env, pools) ==
    IF self._pool = ConnectionPool_pool
    THEN LET r == ConnectionPool_init(self, env, pools)
         IN  IF r.raised = "" /\ r.self._pool = ConnectionPool_pool
             THEN Raises("ValueError", r.self, r.pools)
             ELSE r
    ELSE Returned(self, pools)

\* leaving async with pool.acquire() as con: the connection goes back to
\* the pool whether the block returned or raised
async_with_exit_unless_raised(pools, p, raised) ==
    IF raised THEN pools ELSE [pools EXCEPT ![p].checked_out = @ - 1]

async_with_exit(pools, p, raised) ==
    [pools EXCEPT ![p].checked_out = @ - 1]

\* close_pool after await self._pool.close() returned
close_pool_done_forgetting(self) == [self EXCEPT !._pool = ConnectionPool_pool, !.closers = @ - 1]

close_pool_done(self) == [self EXCEPT !.closers = @ - 1]

Methods == {"_execute", "_fetch", "_fetchrow"}

RECURSIVE Sum(_)
Sum(seq) == IF seq = <<>> THEN 0 ELSE Head(seq) + Sum(Tail(seq))

\* the coroutines inside _execute, _fetch or _fetchrow
InFlight == Sum([o \in DOMAIN cp_objs |-> cp_objs[o].acquiring + cp_objs[o].holding])

\* the coroutines inside the async with block of an object whose pool is p
Holding(p) ==
    Sum([o \in DOMAIN cp_objs |-> IF cp_objs[o]._pool = p THEN cp_objs[o].holding ELSE 0])

PoolCall(op, obj, outcome) == [op |-> op, obj |-> obj, outcome |-> outcome]

NumObjects == 2

NumCallers == 11

Environments == {<<>>, [k \in {"DATABASE_URL"} |-> "dsn"]}

PoolInit ==
    /\ environ \in Environments
    /\ cp_objs = <<>>
    /\ driver_pools = <<>>
    /\ pool_last = NoPoolCall
    /\ OrmInit({}, 0)
    /\ NoBuilderCall

\* os.environ is changed from outside
Setenv ==
    /\ environ' \in Environments \ {environ}
    /\ UNCHANGED <<cp_objs, driver_pools, pool_last, ormVars, builderVars>>

\* ConnectionPool(): the object exists once __new__ has made it, whether
\* __init__ returns or raises; after a raise it reads the class attribute
\* _pool, which is what get_pool tests for
Construct_ConnectionPool ==
    /\ Len(cp_objs) < NumObjects
    /\ \E r \in {ConnectionPool_init(ConnectionPool_new, environ, driver_pools)} :
           /\ cp_objs' = Append(cp_objs, r.self)
           /\ driver_pools' = r.pools
           /\ pool_last' = PoolCall("__init__", Len(cp_objs) + 1,
                                    IF r.raised = "" THEN "ok" ELSE r.raised)
    /\ UNCHANGED <<environ, ormVars, builderVars>>

\* self.get_pool() called on its own
GetPool ==
    /\ \E o \in DOMAIN cp_objs :
           \E r \in {get_pool(cp_objs[o], environ, driver_pools)} :
               /\ driver_pools' = r.pools
               /\ cp_objs' = [cp_objs EXCEPT ![o] = r.self]
               /\ pool_last' = PoolCall("get_pool", o, IF r.raised = "" THEN "ok" ELSE r.raised)
    /\ UNCHANGED <<environ, ormVars, builderVars>>

\* a coroutine enters _execute, _fetch or _fetchrow: pool = self.get_pool(),
\* then pool.acquire()
CallMethod ==
    /\ InFlight < NumCallers
    /\ \E o \in DOMAIN cp_objs, m \in Methods :
           \E r \in {get_pool(cp_objs[o], environ, driver_pools)} :
               /\ driver_pools' = r.pools
               /\ IF r.raised # ""
                  THEN /\ cp_objs' = [cp_objs EXCEPT ![o] = r.self]
                       /\ pool_last' = PoolCall(m, o, r.raised)
                  ELSE IF r.pools[r.self._pool].closing \/ r.pools[r.self._pool].closed
                       THEN /\ cp_objs' = [cp_objs EXCEPT ![o] = r.self]
                            /\ pool_last' = PoolCall(m, o, "InterfaceError")
                       ELSE /\ cp_objs' = [cp_objs EXCEPT
                                              ![o] = [r.self EXCEPT !.acquiring = @ + 1]]
                            /\ pool_last' = PoolCall(m, o, "acquiring")
    /\ UNCHANGED <<environ, ormVars, builderVars>>

\* pool.acquire() hands a free connection to a waiting coroutine
Acquire ==
    /\ \E o \in DOMAIN cp_objs :
           LET pool == cp_objs[o]._pool
           IN  /\ cp_objs[o].acquiring > 0
               /\ ~driver_pools[pool].closing
               /\ ~driver_pools[pool].closed
               /\ driver_pools[pool].checked_out < driver_pools[pool].max_size
               /\ driver_pools' = [driver_pools EXCEPT ![pool].checked_out = @ + 1]
               /\ cp_objs' = [cp_objs EXCEPT ![o].acquiring = @ - 1, ![o].holding = @ + 1]
               /\ pool_last' = PoolCall("__aenter__", o, "ok")
    /\ UNCHANGED <<environ, ormVars, builderVars>>

\* pool.acquire() raises in a coroutine that waited while the pool was closed
AcquireRaises ==
    /\ \E o \in DOMAIN cp_objs :
           LET pool == cp_objs[o]._pool
           IN  /\ cp_objs[o].acquiring > 0
               /\ driver_pools[pool].closing \/ driver_pools[pool].closed
               /\ cp_objs' = [cp_objs EXCEPT ![o].acquiring = @ - 1]
               /\ pool_last' = PoolCall("__aenter__", o, "InterfaceError")
    /\ UNCHANGED <<environ, driver_pools, ormVars, builderVars>>

\* con.execute / con.fetch / con.fetchrow returns, and the block is left
QueryReturns ==
    /\ \E o \in DOMAIN cp_objs :
           /\ cp_objs[o].holding > 0
           /\ driver_pools' = async_with_exit(driver_pools, cp_objs[o]._pool, FALSE)
           /\ cp_objs' = [cp_objs EXCEPT ![o].holding = @ - 1]
           /\ pool_last' = PoolCall("__aexit__", o, "ok")
    /\ UNCHANGED <<environ, ormVars, builderVars>>

\* con.execute / con.fetch / con.fetchrow raises, and the block is left
QueryRaises ==
    /\ \E o \in DOMAIN cp_objs :
           /\ cp_objs[o].holding > 0
           /\ driver_pools' = async_with_exit(driver_pools, cp_objs[o]._pool, TRUE)
           /\ cp_objs' = [cp_objs EXCEPT ![o].holding = @ - 1]
           /\ pool_last' = PoolCall("__aexit__", o, "QueryError")
    /\ UNCHANGED <<environ, ormVars, builderVars>>

\* close_pool up to await self._pool.close(), which returns at once on a
\* closed pool
ClosePool ==
    /\ \E o \in DOMAIN cp_objs :
           /\ cp_objs[o].closers = 0
           /\ IF cp_objs[o]._pool = ConnectionPool_pool \/ driver_pools[cp_objs[o]._pool].closed
              THEN /\ pool_last' = PoolCall("close_pool", o, "ok")
                   /\ UNCHANGED <<cp_objs, driver_pools>>
              ELSE /\ driver_pools' = [driver_pools EXCEPT ![cp_objs[o]._pool].closing = TRUE]
                   /\ cp_objs' = [cp_objs EXCEPT ![o].closers = @ + 1]
                   /\ pool_last' = PoolCall("close_pool", o, "closing")
    /\ UNCHANGED <<environ, ormVars, builderVars>>

\* self._pool.close() returns: every connection was given back
ClosePoolDone ==
    /\ \E o \in DOMAIN cp_objs :
           /\ cp_objs[o].closers > 0
           /\ driver_pools[cp_objs[o]._pool].checked_out = 0
           /\ driver_pools' = [driver_pools EXCEPT ![cp_objs[o]._pool].closed = TRUE]
           /\ cp_objs' = [cp_objs EXCEPT ![o] = close_pool_done(cp_objs[o])]
           /\ pool_last' = PoolCall("close_pool", o, "ok")
    /\ UNCHANGED <<environ, ormVars, builderVars>>

PoolNext ==
    \/ Setenv
    \/ Construct_ConnectionPool
    \/ GetPool
    \/ CallMethod
    \/ Acquire
    \/ AcquireRaises
    \/ QueryReturns
    \/ QueryRaises
    \/ ClosePool
    \/ ClosePoolDone

PoolSpec == PoolInit /\ [][PoolNext]_vars

\* the event loop runs a coroutine that can go on; when a statement returns
\* is up to the database
FairPoolSpec ==
    /\ PoolSpec
    /\ WF_vars(Acquire)
    /\ WF_vars(AcquireRaises)
    /\ WF_vars(ClosePoolDone)

\* the driver pool of an object
PoolOf(o) == driver_pools[cp_objs[o]._pool]

\* close() of the object's pool has returned
Closed(o) == cp_objs[o]._pool # ConnectionPool_pool /\ PoolOf(o).closed

\* the object has no driver pool: its __init__ raised
NoPoolYet(o) == o \in DOMAIN cp_objs /\ cp_objs[o]._pool = ConnectionPool_pool

(* C7: every coroutine that leaves the async with block of _execute, _fetch
   or _fetchrow, by return or by exception, gives its connection back: the
   connections a pool has handed out are exactly those of the coroutines
   inside a block on it, so when no call is in flight no connection is
   checked out. *)
C7_ConnectionsReturned ==
    /\ \A p \in DOMAIN driver_pools : driver_pools[p].checked_out = Holding(p)
    /\ InFlight = 0 => \A p \in DOMAIN driver_pools : driver_pools[p].checked_out = 0

\* the last call left its block by an exception and nothing is in flight
C7_Witness ==
    /\ pool_last = PoolCall("__aexit__", 1, "QueryError")
    /\ InFlight = 0
    /\ driver_pools # <<>>
    /\ \A p \in DOMAIN driver_pools : driver_pools[p].checked_out = 0

\* a coroutine waits in pool.acquire() of an object whose pool has handed
\* out all its connections
Saturated(o) ==
    /\ o \in DOMAIN cp_objs
    /\ cp_objs[o].acquiring > 0
    /\ PoolOf(o).checked_out = PoolOf(o).max_size

(* C8 as stated: the callers that wait because the pool is saturated do not
   wait forever: a connection is released, or their wait ends (with
   PoolTimeoutError after a bounded wait, or because the pool was closed). *)
C8_SaturatedCallerProceeds ==
    \A o \in 1..NumObjects :
        Saturated(o) ~> (/\ o \in DOMAIN cp_objs
                         /\ \/ cp_objs[o].acquiring = 0
                            \/ PoolOf(o).checked_out < PoolOf(o).max_size
                            \/ pool_last.outcome = "PoolTimeoutError")

(* C9: once close_pool() has returned the object still holds its pool, now
   closed: no coroutine is inside a block on it, every later _execute,
   _fetch or _fetchrow on the object raises at pool.acquire() without
   handing out a connection, and no call on it makes a new driver pool
   (only __init__ does, run by constructing another ConnectionPool or by
   get_pool on an object that has no pool yet). *)
C9_NoQueryAfterClose ==
    /\ []((pool_last.op = "close_pool" /\ pool_last.outcome = "ok") =>
              (Closed(pool_last.obj) \/ NoPoolYet(pool_last.obj)))
    /\ [](\A o \in DOMAIN cp_objs : Closed(o) => cp_objs[o].holding = 0)
    /\ [][/\ \A o \in DOMAIN cp_objs :
                (/\ ~NoPoolYet(o)
                 /\ pool_last'.op = "close_pool"
                 /\ pool_last'.outcome = "ok"
                 /\ pool_last'.obj = o) =>
                    /\ cp_objs'[o]._pool = cp_objs[o]._pool
                    /\ driver_pools'[cp_objs[o]._pool].closed
          /\ \A o \in DOMAIN cp_objs :
                Closed(o) =>
                    /\ cp_objs'[o]._pool = cp_objs[o]._pool
                    /\ driver_pools'[cp_objs[o]._pool].closed
                    /\ driver_pools'[cp_objs[o]._pool].checked_out = 0
                    /\ cp_objs'[o].holding = 0
                    /\ cp_objs'[o].acquiring <= cp_objs[o].acquiring
                    /\ (pool_last'.op \in Methods /\ pool_last'.obj = o) =>
                           pool_last'.outcome = "InterfaceError"
          /\ Len(driver_pools') > Len(driver_pools) =>
                 \/ pool_last'.op = "__init__"
                 \/ cp_objs[pool_last'.obj]._pool = ConnectionPool_pool]_vars

\* _execute, _fetch or _fetchrow was called on an object whose pool is closed
C9_Witness ==
    /\ pool_last.op \in Methods
    /\ pool_last.outcome = "InterfaceError"
    /\ Closed(pool_last.obj)
    /\ Len(driver_pools) = 1

(* C10 as stated: however many ConnectionPool objects are constructed, at
   most one driver pool is ever created and every object uses that pool. *)
C10_OneDriverPool ==
    /\ Len(driver_pools) <= 1
    /\ \A o1, o2 \in DOMAIN cp_objs : cp_objs[o1]._pool = cp_objs[o2]._pool

\* not dsn, for dsn = os.getenv("DATABASE_URL")
Unconfigured == getenv(environ, "DATABASE_URL") \in {None, ""}

CallsOfPool == Methods \cup {"__init__", "get_pool"}

(* C11: while DATABASE_URL is absent, ConnectionPool() raises ValueError and
   creates no driver pool, and every get_pool, _execute, _fetch or _fetchrow
   on the object that was left without a pool raises ValueError too: the
   object stays without a pool, no driver pool is created, and no coroutine
   of it ever waits for or holds a connection. *)
C11_NoPoolWithoutDatabaseUrl ==
    /\ [](\A o \in DOMAIN cp_objs :
              NoPoolYet(o) => /\ cp_objs[o].acquiring = 0
                              /\ cp_objs[o].holding = 0
                              /\ cp_objs[o].closers = 0)
    /\ [][Unconfigured =>
             /\ Len(driver_pools') = Len(driver_pools)
             /\ \A o \in DOMAIN cp_objs' :
                    (o \notin DOMAIN cp_objs \/ NoPoolYet(o)) =>
                        /\ cp_objs'[o] = ConnectionPool_new
                        /\ (pool_last'.obj = o /\ pool_last'.op \in CallsOfPool) =>
                               pool_last'.outcome = "ValueError"]_vars

\* _execute, _fetch or _fetchrow was called, with DATABASE_URL absent, on an
\* object whose construction had failed
C11_Witness ==
    /\ Unconfigured
    /\ pool_last.op \in Methods
    /\ pool_last.outcome = "ValueError"
    /\ NoPoolYet(pool_last.obj)
    /\ driver_pools = <<>>

----------------------------------------------------------------------------
(* Declaring entity classes: ModelMeta.__new__ applied to class bodies drawn  *)
(* from bounded sets of names, Field attributes and annotations.              *)

NumClasses == 1

MaxIdent == 4

\* the attribute names of the Field attributes, in the order written
AttrNames == <<"id", "code">>

Defaults == {<<None, FALSE>>, <<"0", FALSE>>, <<"x", TRUE>>}

Fields ==
    {Field(t, n, d[1], d[2], pk, u, NoForeignKey) :
        t \in {FieldType.INT, FieldType.TEXT}, n \in BOOLEAN, d \in Defaults,
        pk \in BOOLEAN, u \in BOOLEAN}

Namespaces ==
    UNION {{[i \in 1..m |-> <<AttrNames[i], f[i]>>] : f \in [1..m -> Fields]} : m \in 0..Len(AttrNames)}

IdentChars == {"A", "B", "a", "b", "1", "_"}

Identifiers ==
    UNION {{x \in [1..m -> IdentChars] : ~IsDigit(x[1])} : m \in 1..MaxIdent}

HTTPRequest == <<"H","T","T","P","R","e","q","u","e","s","t">>

UserProfile == <<"U","s","e","r","P","r","o","f","i","l","e">>

user_profile == <<"u","s","e","r","_","p","r","o","f","i","l","e">>

ClassNames == Identifiers \cup {HTTPRequest, UserProfile, user_profile}

\* a class whose one Field refers to the class named reference_model
ReferringNamespace(reference_model) ==
    << <<"ref", Field(FieldType.INT, TRUE, None, FALSE, FALSE, FALSE,
                      ForeignKey(reference_model, "id", "CASCADE", "CASCADE"))>> >>

AnnotatedTypes ==
    {Class("int"), Class("str"), Class("bool"), Class("float"), Class("bytes"),
     ListOf("int")}
    \cup {Optional(T, origin) : T \in {"int", "str", "bytes"}, origin \in {None, UnionType}}

AnnotatedNames == <<<<"n","o","t","e">>, <<"_","x">>>>

Annotations ==
    UNION {{[i \in 1..m |-> <<AnnotatedNames[i], t[i]>>] : t \in [1..m -> AnnotatedTypes]} :
              m \in 0..Len(AnnotatedNames)}
    \cup {<<<<<<"i","d">>, t>>>> : t \in AnnotatedTypes}

Item == <<"I","t","e","m">>

KeyedNamespace ==
    << <<"id", Field(FieldType.INT, FALSE, None, FALSE, TRUE, FALSE, NoForeignKey)>> >>

ClassBodies ==
    {ClassBody(Item, ns, <<>>) : ns \in Namespaces}
    \cup {ClassBody(Item, KeyedNamespace, ann) : ann \in Annotations}
    \cup {ClassBody(name, ReferringNamespace(name), <<>>) : name \in ClassNames}

DeclInit ==
    /\ OrmInit({}, 0)
    /\ NoBuilderCall
    /\ NoPool

\* class name(BaseModel): body
Declare ==
    /\ Cardinality(DOMAIN schema) < NumClasses
    /\ \E body \in ClassBodies :
           \E cls \in {ModelMeta_new(body)} :
               /\ cls.__name__ \notin DOMAIN schema
               /\ schema' = [c \in DOMAIN schema \cup {cls.__name__} |->
                                IF c = cls.__name__ THEN cls ELSE schema[c]]
               /\ last' = Call("__new__", cls.__name__, 0, {}, "ok", NoStmt, FALSE)
    /\ UNCHANGED <<catalog, db_rows, objs, builderVars, poolVars>>

DeclNext == Declare

DeclSpec == DeclInit /\ [][DeclNext]_vars

\* the Field attributes of a declared class that are marked primary_key=True
PrimaryKeyFields(c) ==
    {i \in DOMAIN schema[c].namespace : schema[c].namespace[i][2].primary_key}

(* C13 as stated: a class body with two or more Fields marked
   primary_key=True is rejected at declaration: no declared class was built
   from more than one primary-key Field. *)
C13_AtMostOnePrimaryKey ==
    \A c \in DOMAIN schema : Cardinality(PrimaryKeyFields(c)) <= 1

\* the optional clauses of a column definition, in the order of the text
OptionalClauses == <<"NOT NULL", "PRIMARY KEY", "UNIQUE", "DEFAULT">>

Rank(kw) == CHOOSE r \in DOMAIN OptionalClauses : OptionalClauses[r] = kw

Has(column, kw) == \E j \in 2..Len(column) : column[j].kw = kw

(* C16: the column SQL of every Field attribute of a declared class is its
   type followed by clauses taken from NOT NULL, PRIMARY KEY, UNIQUE, DEFAULT
   in that order, each at most once: NOT NULL iff not nullable, PRIMARY KEY
   iff primary_key, UNIQUE iff unique, DEFAULT iff a default is given and the
   Field is not a primary key; DEFAULT carries the default, in single quotes
   iff it is a str. *)
C16_ColumnClauses ==
    \A c \in DOMAIN schema :
        \A i \in DOMAIN schema[c].namespace :
            LET attr_value == schema[c].namespace[i][2]
                column == Lookup(schema[c]._fields, schema[c].namespace[i][1])
            IN  /\ Len(column) >= 1
                /\ column[1].kw = attr_value.field_type
                /\ \A j \in 2..Len(column) : column[j].kw \in Range(OptionalClauses)
                /\ \A j, k \in 2..Len(column) :
                       j < k => Rank(column[j].kw) < Rank(column[k].kw)
                /\ Has(column, "NOT NULL") <=> ~attr_value.nullable
                /\ Has(column, "PRIMARY KEY") <=> attr_value.primary_key
                /\ Has(column, "UNIQUE") <=> attr_value.unique
                /\ Has(column, "DEFAULT") <=>
                       (attr_value.default # None /\ ~attr_value.primary_key)
                /\ \A j \in 2..Len(column) :
                       column[j].kw = "DEFAULT" =>
                           /\ column[j].literal = attr_value.default
                           /\ column[j].quoted = attr_value.default_is_str
                           /\ attr_value.default_is_str =>
                                  ClauseText(<<column[j]>>) =
                                      "DEFAULT '" \o attr_value.default \o "'"

\* a class was declared with a Field that sets every flag but primary_key and
\* has a str default, and with a primary-key Field that has a default
C16_Witness ==
    /\ "Item" \in DOMAIN schema
    /\ Len(schema["Item"].namespace) = 2
    /\ schema["Item"].namespace[1][2].primary_key
    /\ schema["Item"].namespace[1][2].default = "0"
    /\ ClauseText(Lookup(schema["Item"]._fields, "id")) = "INTEGER NOT NULL PRIMARY KEY UNIQUE"
    /\ ~schema["Item"].namespace[2][2].primary_key
    /\ ClauseText(Lookup(schema["Item"]._fields, "code")) = "TEXT NOT NULL UNIQUE DEFAULT 'x'"

\* an identifier written in snake_case already
IsSnakeCase(x) == \A i \in DOMAIN x : IsLower(x[i]) \/ IsDigit(x[i]) \/ x[i] = "_"

(* C17: for the name x of every declared class, converting twice gives what
   converting once gives; HTTPRequest gives http_request and UserProfile
   gives user_profile; a name already in snake_case is returned unchanged;
   the default table name is the conversion of the class name, and the
   reference table of every foreign key is the conversion of the name of the
   class it refers to. *)
C17_CamelToSnake ==
    \A c \in DOMAIN schema :
        LET x == schema[c].__qualname__
        IN  /\ _camel_to_snake(_camel_to_snake(x)) = _camel_to_snake(x)
            /\ x = HTTPRequest => Text(_camel_to_snake(x)) = "http_request"
            /\ x = UserProfile => Text(_camel_to_snake(x)) = "user_profile"
            /\ IsSnakeCase(x) => _camel_to_snake(x) = x
            /\ IsSnakeCase(_camel_to_snake(x))
            /\ schema[c]._table_name = Text(_camel_to_snake(x))
            /\ \A i \in DOMAIN schema[c].namespace :
                   LET fk == schema[c].namespace[i][2].foreign_key
                   IN  fk # NoForeignKey =>
                           Lookup(schema[c]._foreign_keys,
                                  schema[c].namespace[i][1]).reference_table
                               = Text(_camel_to_snake(fk.reference_model))

\* class HTTPRequest was declared with a foreign key to itself
C17_Witness ==
    /\ "HTTPRequest" \in DOMAIN schema
    /\ schema["HTTPRequest"]._table_name = "http_request"
    /\ Lookup(schema["HTTPRequest"]._foreign_keys, "ref").reference_table = "http_request"

\* the type T of an annotation T | None, and the annotated type otherwise
WrappedType(python_type) ==
    IF Len(python_type.__args__) = 2 /\ python_type.__args__[2] = "NoneType"
    THEN python_type.__args__[1]
    ELSE python_type.name

(* C18 as stated: a public attribute declared only by an annotation becomes
   a field after all Field attributes, with the column type of the fixed
   mapping; T | None gives the column of T; an annotation with no mapping
   adds no field; the declaration raises no error. *)
C18_AnnotationOnlyFields ==
    \A c \in DOMAIN schema :
        /\ last.op = "__new__" => last.outcome = "ok"
        /\ \A i \in DOMAIN schema[c].__annotations__ :
               LET attr_name == Text(schema[c].__annotations__[i][1])
                   field_type == type_mapping_get(WrappedType(schema[c].__annotations__[i][2]))
               IN  (/\ schema[c].__annotations__[i][1][1] # "_"
                    /\ ~HasKey(schema[c].namespace, attr_name)) =>
                       IF field_type # None
                       THEN \E j \in DOMAIN schema[c]._fields :
                                /\ j > Len(schema[c].namespace)
                                /\ schema[c]._fields[j] = <<attr_name, <<Clause(field_type)>>>>
                       ELSE ~HasKey(schema[c]._fields, attr_name)

====
